---------------------------- MODULE Spec2Model ----------------------------
(***************************************************************************)
(* Model of the MidiKraft patch database (PatchDatabase.cpp,               *)
(* CategoryBitfield.cpp): the categories table and the active bitfield,    *)
(* the patches and imports tables, the merge / putPatch / reindex /       *)
(* getPatches / delete operations on them, the opening of a database file  *)
(* (createSchema, migrateSchema, backups before a migration), and the      *)
(* allocation of category bit indexes.                                     *)
(*                                                                         *)
(* A 64 bit mask (columns categories, categoryUserDecision) is modelled as *)
(* the set of its set bit positions.                                       *)
(*                                                                         *)
(* The value of a local variable that the code computes once and reads     *)
(* several times is bound by a quantifier over a one-element set, as in    *)
(* CHOOSE r \in { F(x) : x \in {e} } : TRUE, which is F(e) with e computed  *)
(* once.                                                                   *)
(***************************************************************************)
EXTENDS Integers, Sequences, FiniteSets, TLC

VARIABLES
    catTable,   \* table categories: set of rows [bitIndex, name, active]
    bitfield,   \* member bitfield: CategoryBitfield::bitNames_, a sequence of [name, bitIndex]
    categoryDefinitions_, \* member categoryDefinitions_: the cached definitions [id, name, active]
    patches,    \* table patches: sequence of rows in rowid order
    imports,    \* table imports: sequence of rows [synth, name, id]
    fpAlgo,     \* which fingerprint algorithm the synth adapters currently implement
    db,         \* the open database: the state of its file and the mode it was opened in
    patchInList, \* table patch_in_list: sequence of rows [id, synth, md5] in rowid order
    issued,     \* the calls of getPatchesAsync made so far: sequence of [filter, skip, limit]
    pool,       \* pool_: the ids of the jobs that wait for a worker thread, oldest first
    running,    \* the jobs whose getPatches has returned and whose callAsync is still to come
    messageQueue, \* the message queue of the message thread: the posted completions
    callbacks,  \* the invocations of 'finished' so far, in order
    released,   \* the synths whose last shared_ptr is gone: weak references to them are expired
    crashed,    \* the process has dereferenced a null pointer
    thread,     \* for each thread the operation it runs and the step of it it is at
    categoryLock, \* categoryLock_: the thread inside the critical section and how often it entered
    nOps,       \* number of operations executed so far (bounds the exploration)
    last        \* record of the last operation: its arguments, result and the tables before it

threadVars ==
    <<issued, pool, running, messageQueue, callbacks, released, crashed, thread, categoryLock>>

vars ==
    <<catTable, bitfield, categoryDefinitions_, patches, imports, fpAlgo, db, patchInList,
      threadVars, nOps, last>>

-----------------------------------------------------------------------------
(* Bounds of the exploration *)

MaxOps == 2         \* operations per behaviour
MaxBatch == 2       \* holders per merge call

-----------------------------------------------------------------------------
(* Helpers on sequences and sets *)

Range(s) == { s[i] : i \in 1..Len(s) }

SeqsUpTo(S, n) == UNION { [1..k -> S] : k \in 0..n }

Min(S) == CHOOSE x \in S : \A y \in S : x <= y

\* the elements of the finite set S as a sequence ascending by key, a function on S that
\* is injective
SortedBy(S, key) ==
    [i \in 1..Cardinality(S) |->
        CHOOSE x \in S : Cardinality({ y \in S : key[y] < key[x] }) = i - 1]

-----------------------------------------------------------------------------
(* Categories table and CategoryBitfield *)

NumBits == 63       \* makeSetOfCategoriesFromBitfield looks at bits 0..62

\* insertDefaultCategories: the first rows of the default table (bit 0 Lead, bit 1 Pad, bit 2 Brass, ...)
DefaultCategoryNames == <<"Lead", "Pad", "Brass">>

insertDefaultCategories ==
    { [bitIndex |-> i - 1, name |-> DefaultCategoryNames[i], active |-> TRUE] :
        i \in 1..Len(DefaultCategoryNames) }

CategoryNames == Range(DefaultCategoryNames)

BitKey(r) == r.bitIndex

\* getCategories: SELECT * FROM categories ORDER BY bitIndex; the active rows become the bitfield
ActiveDefinitions(tbl) ==
    LET act == { r \in tbl : r.active }
        rows == SortedBy(act, [r \in act |-> BitKey(r)])
    IN  [i \in 1..Len(rows) |-> [name |-> rows[i].name, bitIndex |-> rows[i].bitIndex]]

\* getCategories, the vector it returns: one definition per row, ORDER BY bitIndex (a cached
\* definition with the id of a row is reused and overwritten with the columns of the row)
getCategories(tbl) ==
    LET rows == SortedBy(tbl, [r \in tbl |-> BitKey(r)])
    IN  [i \in 1..Len(rows) |->
            [id |-> rows[i].bitIndex, name |-> rows[i].name, active |-> rows[i].active]]

\* CategoryBitfield::bitIndexForCategory: the bitIndex of the first entry with that name, else -1
bitIndexForCategory(bf, cat) ==
    IF \E i \in 1..Len(bf) : bf[i].name = cat
    THEN bf[Min({ i \in 1..Len(bf) : bf[i].name = cat })].bitIndex
    ELSE -1

\* CategoryBitfield::categorySetAsBitfield: names that are not found are skipped
categorySetAsBitfield(bf, cats) ==
    { bitIndexForCategory(bf, c) : c \in { d \in cats : bitIndexForCategory(bf, d) /= -1 } }

\* CategoryBitfield::makeSetOfCategoriesFromBitfield: bit i selects the entry at
\* POSITION i of bitNames_ (C++ index i, here i + 1); bits beyond the vector are dropped
makeSetOfCategoriesFromBitfield(bf, mask) ==
    { bf[i + 1].name : i \in { j \in mask : j < NumBits /\ j < Len(bf) } }

\* one definition of updateCategories: UPDATE the row with that bitIndex, else INSERT it
UpsertCategory(tbl, c) ==
    IF \E r \in tbl : r.bitIndex = c.id
    THEN { IF r.bitIndex = c.id
           THEN [bitIndex |-> c.id, name |-> c.name, active |-> c.active] ELSE r : r \in tbl }
    ELSE tbl \cup { [bitIndex |-> c.id, name |-> c.name, active |-> c.active] }

RECURSIVE updateCategories(_, _, _)
\* updateCategories(newdefs): the categories table after the loop over newdefs
updateCategories(tbl, newdefs, i) ==
    IF i > Len(newdefs) THEN tbl
    ELSE CHOOSE r \in { updateCategories(t, newdefs, i + 1) :
                          t \in { UpsertCategory(tbl, newdefs[i]) } } : TRUE

\* getNextBitindex: SELECT MAX(bitIndex) + 1 FROM categories (NULL, read as 0, on an empty
\* table); -1 with a log message when that is not below 63
getNextBitindex(tbl) ==
    LET maxbitindex == IF tbl = {} THEN 0
                       ELSE (CHOOSE r \in tbl : \A q \in tbl : q.bitIndex <= r.bitIndex).bitIndex + 1
    IN  IF maxbitindex < NumBits THEN maxbitindex ELSE -1

\* CategoryBitfield::maxBitIndex: the largest bitIndex of the bitfield, 0 when it is empty
maxBitIndex(bf) ==
    IF Len(bf) = 0 THEN 0
    ELSE bf[CHOOSE i \in 1..Len(bf) : \A j \in 1..Len(bf) : bf[j].bitIndex <= bf[i].bitIndex].bitIndex

\* the first pass of getCategorizer (lines 968-992) from rule i on: a rule whose category
\* has no definition among defs gets a new active row at the next bit index. st becomes
\* "fatal" when the bit index has reached 63 and "threw" when the INSERT violates the
\* UNIQUE constraint of bitIndex.
RECURSIVE CategorizerRules(_, _, _, _)
CategorizerRules(acc, defs, rules, i) ==
    IF i > Len(rules) \/ acc.st /= "run" THEN acc
    ELSE IF \E r \in defs : r.name = rules[i]
         THEN CategorizerRules(acc, defs, rules, i + 1)
    ELSE IF ~(acc.bitindex < NumBits) THEN [acc EXCEPT !.st = "fatal"]
    ELSE IF \E r \in acc.tbl : r.bitIndex = acc.bitindex + 1 THEN [acc EXCEPT !.st = "threw"]
    ELSE CHOOSE r \in
            { CategorizerRules(next, defs, rules, i + 1) :
                next \in { [acc EXCEPT !.bitindex = @ + 1,
                                       !.tbl = @ \cup { [bitIndex |-> acc.bitindex + 1,
                                                         name |-> rules[i],
                                                         active |-> TRUE] }] } } : TRUE

\* mutant: a transaction that is left without commit keeps what it has written
Rollback_Keep(before, written) == written

\* the SQLite::Transaction is destroyed without commit (early return or exception)
Rollback(before, written) == before

\* getCategorizer with the rules file naming the categories rules: the categories table
\* afterwards (the transaction is committed only when the loop has come to its end), and the
\* members the last getCategories before the return or the exception has set (line 959 or 997)
getCategorizer(tbl, rules) ==
    CHOOSE g \in
      { [t |-> IF acc.st = "run" THEN acc.tbl ELSE Rollback(tbl, acc.tbl),
         st |-> IF acc.st = "run" THEN "done" ELSE acc.st,
         defs |-> getCategories(IF acc.st = "run" THEN acc.tbl ELSE tbl),
         bitfield |-> ActiveDefinitions(IF acc.st = "run" THEN acc.tbl ELSE tbl)] :
          acc \in { CategorizerRules([tbl |-> tbl,
                                      bitindex |-> maxBitIndex(ActiveDefinitions(tbl)),
                                      st |-> "run"], tbl, rules, 1) } } : TRUE

-----------------------------------------------------------------------------
(* Synth adapters, patch holders and rows of the patches table *)

Synths == {"A", "B"}
Md5s == {"h1", "h2", "h3", "h4", "h5"}
UpdateNAME == "NAME"
UpdateCATEGORIES == "CATEGORIES"
UpdateHIDDEN == "HIDDEN"
UpdateDATA == "DATA"
UpdateFAVORITE == "FAVORITE"
\* enum UpdateChoice as a set of choices; UPDATE_ALL is the union of the five bits
UPDATE_ALL == {UpdateNAME, UpdateCATEGORIES, UpdateHIDDEN, UpdateDATA, UpdateFAVORITE}

\* Synth::calculateFingerprint as called by PatchHolder::md5(): adapter callback that hashes
\* the canonicalized bytes. Adapter A changes its algorithm between version 1 and 2 (the
\* reindex case); the same bytes hash alike for A and B.
Fingerprint(algo, synth, data) ==
    IF data = "d1" THEN "h1"
    ELSE IF data = "d3" THEN (IF synth = "A" /\ algo = 2 THEN "h5" ELSE "h4")
    ELSE IF synth = "A" THEN (IF algo = 1 THEN "h2" ELSE "h1")
    ELSE "h3"

md5(algo, h) == Fingerprint(algo, h.synth, h.data)

\* hasDefaultName: the DefaultNameCapability of the adapter; adapter A declares "Init" a
\* default name, adapter B has no such capability
hasDefaultName(synth, patchName) == synth = "A" /\ patchName = "Init"

\* SourceInfo of a holder: "none" (null pointer), "eb" (edit buffer) or a bank import;
\* md5() and toDisplayString() are virtual and independent of each other: the sources
\* "s1" and "s3" have the same import id and different display strings
isEditBufferImport(src) == src = "eb"
SourceInfoMd5(src) == IF src \in {"s1", "s3"} THEN "u1" ELSE "u2"
SourceInfoDisplay(src) ==
    IF src = "s1" THEN "Bank 1" ELSE IF src = "s3" THEN "Bank 3" ELSE "Bank 2"

NoRow == [synth |-> "none"]

\* "SELECT ... FROM patches WHERE md5 = :MD5 and synth = :SYN": the positions of the matching rows
RowsAt(tbl, synth, fp) == { i \in 1..Len(tbl) : tbl[i].md5 = fp /\ tbl[i].synth = synth }

\* the row-decoder: the PatchHolder built from a row of the patches table
loadPatchFromQueryRow(bf, row) ==
    [synth |-> row.synth, data |-> row.data, name |-> row.name,
     cats |-> makeSetOfCategoriesFromBitfield(bf, row.cats),
     ud |-> makeSetOfCategoriesFromBitfield(bf, row.cud),
     fav |-> row.fav, hidden |-> row.hidden, src |-> row.src, sid |-> row.sourceID]

\* getSinglePatch: the holder of the row with that synth and md5, or NoRow
getSinglePatch(tbl, bf, synth, fp) ==
    IF RowsAt(tbl, synth, fp) = {} THEN NoRow
    ELSE loadPatchFromQueryRow(bf, tbl[Min(RowsAt(tbl, synth, fp))])

\* mutant: the patches table without the UNIQUE constraint
InsertPatchRow_NoUnique(tbl, row) == Append(tbl, row)

\* INSERT INTO patches under the schema's constraint "md5 TEXT UNIQUE": a row whose md5 is
\* already in the table raises an SQLite exception and the table is unchanged
InsertPatchRow(tbl, row) ==
    IF \E i \in 1..Len(tbl) : tbl[i].md5 = row.md5 THEN tbl ELSE Append(tbl, row)

\* putPatch(patch, sourceID). st = "crash": patch.sourceInfo() is null and is dereferenced.
\* An SQLite exception is caught and logged; the function returns true either way.
putPatch(tbl, bf, algo, h, sourceID) ==
    IF h.src = "none" THEN [t |-> tbl, st |-> "crash"]
    ELSE [t |-> InsertPatchRow(tbl,
                  [synth |-> h.synth, md5 |-> md5(algo, h), name |-> h.name, data |-> h.data,
                   fav |-> h.fav, hidden |-> h.hidden, sourceID |-> sourceID, src |-> h.src,
                   cats |-> categorySetAsBitfield(bf, h.cats),
                   cud |-> categorySetAsBitfield(bf, h.ud)]),
          st |-> "ok"]

category_union(a, b) == a \cup b
category_intersection(a, b) == a \cap b
category_difference(a, b) == a \ b

\* mutant: the categories of both patches are united, user decisions override nothing
calculateMergedCategories_PlainUnion(newPatch, existingPatch) ==
    [cats |-> category_union(newPatch.cats, existingPatch.cats),
     ud |-> category_union(newPatch.ud, existingPatch.ud)]

\* calculateMergedCategories: the categories and user decisions newPatch gets
calculateMergedCategories(newPatch, existingPatch) ==
    LET newPatchesUserDecided == category_intersection(newPatch.cats, newPatch.ud)
        newPatchesAutomatic == category_difference(newPatch.cats, newPatch.ud)
        oldUserDecided == category_intersection(existingPatch.cats, existingPatch.ud)
        newAutomaticWithoutExistingOverride ==
            category_difference(newPatchesAutomatic, existingPatch.ud)
        oldUserDecidedWithoutNewOverride == category_difference(oldUserDecided, newPatch.ud)
        newCategories == category_union(newPatchesUserDecided, newAutomaticWithoutExistingOverride)
        finalResult == category_union(newCategories, oldUserDecidedWithoutNewOverride)
    IN  [cats |-> finalResult, ud |-> category_union(newPatch.ud, existingPatch.ud)]

\* calculateMergedFavorite
calculateMergedFavorite(newPatch, existingPatch) ==
    IF newPatch.fav = "DONTKNOW" THEN existingPatch.fav ELSE newPatch.fav

\* mutant: an UPDATE that sets every column, whatever the update choices are
UpdatedRow_AllColumns(row, bf, newPatch, existingPatch, updateChoices) ==
    [row EXCEPT !.cats = categorySetAsBitfield(bf, calculateMergedCategories(newPatch, existingPatch).cats),
                !.cud = categorySetAsBitfield(bf, calculateMergedCategories(newPatch, existingPatch).ud),
                !.name = newPatch.name, !.data = newPatch.data, !.hidden = newPatch.hidden,
                !.fav = calculateMergedFavorite(newPatch, existingPatch)]

\* the row after "UPDATE patches SET <the chosen columns>"
UpdatedRow(row, bf, newPatch, existingPatch, updateChoices) ==
    LET merged == calculateMergedCategories(newPatch, existingPatch)
    IN  [row EXCEPT
          !.cats = IF UpdateCATEGORIES \in updateChoices
                   THEN categorySetAsBitfield(bf, merged.cats) ELSE @,
          !.cud = IF UpdateCATEGORIES \in updateChoices
                  THEN categorySetAsBitfield(bf, merged.ud) ELSE @,
          !.name = IF UpdateNAME \in updateChoices THEN newPatch.name ELSE @,
          !.data = IF UpdateDATA \in updateChoices THEN newPatch.data ELSE @,
          !.hidden = IF UpdateHIDDEN \in updateChoices THEN newPatch.hidden ELSE @,
          !.fav = IF UpdateFAVORITE \in updateChoices
                  THEN calculateMergedFavorite(newPatch, existingPatch) ELSE @]

\* updatePatch(newPatch, existingPatch, updateChoices): UPDATE ... WHERE md5 = newPatch.md5()
\* and synth = existingPatch.synth(). st = "throw": the statement changed no row (or several)
\* and the function throws a std::runtime_error pointer, which no handler in the class catches.
updatePatch(tbl, bf, algo, newPatch, existingPatch, updateChoices) ==
    LET hit == RowsAt(tbl, existingPatch.synth, md5(algo, newPatch))
    IN  IF updateChoices = {} THEN [t |-> tbl, st |-> "ok"]
        ELSE IF Cardinality(hit) /= 1 THEN [t |-> tbl, st |-> "throw"]
        ELSE [t |-> [tbl EXCEPT ![Min(hit)] =
                        UpdatedRow(@, bf, newPatch, existingPatch, updateChoices)],
              st |-> "ok"]

-----------------------------------------------------------------------------
(* mergePatchesIntoDatabase *)

\* ProgressHandler::shouldAbort() as seen by one merge call: whether a call during the probe
\* answers true, and the loop (phase) and item (idx) whose check is the first to answer true
NoAbort == [probe |-> FALSE, phase |-> "none", idx |-> 0]

\* bulkGetPatches: md5 -> projection (synth of the probing holder, stored name) of the
\* incoming holders found in the table; std::map::emplace keeps the first entry of a key.
\* An abort during the probe returns the empty map.
bulkGetPatches(tbl, algo, batch, probeAbort) ==
    LET found == { i \in 1..Len(batch) :
                     RowsAt(tbl, batch[i].synth, md5(algo, batch[i])) /= {} }
        keys == IF probeAbort /\ Len(batch) > 0 THEN {}
                ELSE { md5(algo, batch[i]) : i \in found }
    IN  [k \in keys |->
            LET i == Min({ j \in found : md5(algo, batch[j]) = k })
            IN  [synth |-> batch[i].synth,
                 name |-> tbl[Min(RowsAt(tbl, batch[i].synth, k))].name,
                 cats |-> {}, ud |-> {}, fav |-> "DONTKNOW"]]

\* mutant: the update mask is used as given, also for a default name
onlyUpdateThis_Unmasked(updateChoice, patch) == updateChoice

\* lines 761-764: UPDATE_NAME is cleared when the incoming name is a default name
onlyUpdateThis(updateChoice, patch) ==
    IF hasDefaultName(patch.synth, patch.name) THEN updateChoice \ {UpdateNAME} ELSE updateChoice

\* mutant: a new patch is pushed only if outNewPatches has no patch of that fingerprint yet
pushNewPatch_Dedup(algo, out, patch) ==
    IF \E i \in 1..Len(out) : md5(algo, out[i]) = md5(algo, patch) THEN out ELSE Append(out, patch)

\* line 787: outNewPatches.push_back(patch)
pushNewPatch(algo, out, patch) == Append(out, patch)

\* body of the first loop (lines 757-788) for one incoming holder. Every holder is logged
\* in acc.steps with the table before and after it: path "full" (existing row reloaded and
\* updated), "name" (name updated from the probe projection), "gone" (known by the probe but
\* not found by getSinglePatch) or "new" (appended to outNewPatches).
ClassifyOne(env, acc, patch) ==
    LET md5_key == md5(env.algo, patch)
        only == onlyUpdateThis(env.mask, patch)
        existing == getSinglePatch(acc.t, env.bf, patch.synth, md5_key)
        full == updatePatch(acc.t, env.bf, env.algo, patch, existing, only)
        nameOnly == updatePatch(acc.t, env.bf, env.algo, patch, env.known[md5_key], {UpdateNAME})
        Step(path, after) == [incoming |-> patch, existing |-> existing, path |-> path,
                              choices |-> only, before |-> acc.t, after |-> after]
    IN  IF md5_key \in DOMAIN env.known
        THEN IF only /= {UpdateNAME}
             THEN IF existing /= NoRow
                  THEN [acc EXCEPT !.t = full.t,
                                   !.st = IF full.st = "ok" THEN @ ELSE "threw",
                                   !.steps = Append(@, Step("full", full.t))]
                  ELSE [acc EXCEPT !.steps = Append(@, Step("gone", acc.t))]
             ELSE [acc EXCEPT !.t = nameOnly.t,
                              !.st = IF nameOnly.st = "ok" THEN @ ELSE "threw",
                              !.steps = Append(@, Step("name", nameOnly.t))]
        ELSE [acc EXCEPT !.out = pushNewPatch(env.algo, @, patch),
                         !.steps = Append(@, Step("new", acc.t))]

RECURSIVE ClassifyLoop(_, _, _)
\* the first loop: a true shouldAbort() at item i returns 0 from the merge
ClassifyLoop(env, acc, i) ==
    IF i > Len(env.batch) \/ acc.st /= "run" THEN acc
    ELSE IF env.ab.phase = "classify" /\ env.ab.idx = i THEN [acc EXCEPT !.st = "cancelled"]
    ELSE CHOOSE r \in { ClassifyLoop(env, next, i + 1) :
                          next \in { ClassifyOne(env, acc, env.batch[i]) } } : TRUE

\* the order of std::string values that occur as import tuple members
StringOrder ==
    <<"A", "B", "Bank 1", "Bank 2", "Bank 3", "Edit buffer imports", "EditBufferImport",
      "u1", "u2">>

StrRank(str) == Min({ i \in 1..Len(StringOrder) : StringOrder[i] = str })

ImportKey(tup) == StrRank(tup[1]) * 100 + StrRank(tup[2]) * 10 + StrRank(tup[3])

\* the import id the second loop (lines 800-816) computes for a new patch with source info
ImportUID(h) == IF isEditBufferImport(h.src) THEN "EditBufferImport" ELSE SourceInfoMd5(h.src)

ImportTuple(h) ==
    IF isEditBufferImport(h.src) THEN <<h.synth, "EditBufferImport", "Edit buffer imports">>
    ELSE <<h.synth, SourceInfoMd5(h.src), SourceInfoDisplay(h.src)>>

\* mapMD5_to_idOfImport[md5]: the id of the last new patch with that md5 and source info;
\* operator[] on a missing key gives the empty string
mapMD5_to_idOfImport(algo, out, fp) ==
    LET at == { i \in 1..Len(out) : md5(algo, out[i]) = fp /\ out[i].src /= "none" }
    IN  IF at = {} THEN "" ELSE ImportUID(out[CHOOSE i \in at : \A j \in at : j <= i])

\* importsToBeCreated: a std::set of tuples, iterated in ascending order
importsToBeCreated(out) ==
    LET tuples == { ImportTuple(out[i]) : i \in { j \in 1..Len(out) : out[j].src /= "none" } }
    IN  SortedBy(tuples, [tup \in tuples |-> ImportKey(tup)])

\* an insertImportInfo without the count query: every call inserts
insertImportInfo_Always(imp, synthname, source_id, importName) ==
    Append(imp, [synth |-> synthname, name |-> importName, id |-> source_id])

\* insertImportInfo: inserts unless exactly one row with that synth and id exists
insertImportInfo(imp, synthname, source_id, importName) ==
    IF Cardinality({ i \in 1..Len(imp) : imp[i].synth = synthname /\ imp[i].id = source_id }) = 1
    THEN imp
    ELSE Append(imp, [synth |-> synthname, name |-> importName, id |-> source_id])

RECURSIVE InsertImports(_, _, _)
InsertImports(imp, tuples, i) ==
    IF i > Len(tuples) THEN imp
    ELSE InsertImports(insertImportInfo(imp, tuples[i][1], tuples[i][2], tuples[i][3]),
                       tuples, i + 1)

\* body of the third loop (lines 826-853) for one new patch
InsertOne(env, acc, newPatch) ==
    LET patchMD5 == md5(env.algo, newPatch)
        duplicate == acc.md5Inserted[patchMD5]
        renamed == updatePatch(acc.t, env.bf, env.algo, newPatch, duplicate, {UpdateNAME})
        put == putPatch(acc.t, env.bf, env.algo, newPatch,
                        IF newPatch.sid = ""
                        THEN mapMD5_to_idOfImport(env.algo, acc.out, patchMD5)
                        ELSE newPatch.sid)
    IN  IF patchMD5 \in DOMAIN acc.md5Inserted
        THEN IF hasDefaultName(duplicate.synth, duplicate.name)
                /\ ~hasDefaultName(newPatch.synth, newPatch.name)
             THEN [acc EXCEPT !.t = renamed.t,
                              !.st = IF renamed.st = "ok" THEN @ ELSE "threw"]
             ELSE acc
        ELSE IF put.st = "crash" THEN [acc EXCEPT !.st = "crashed"]
        ELSE [acc EXCEPT !.t = put.t,
                         !.md5Inserted = (patchMD5 :> newPatch) @@ @,
                         !.sumOfAll = @ + 1]

RECURSIVE InsertLoop(_, _, _)
\* the third loop: a true shouldAbort() at item i returns sumOfAll from the merge
InsertLoop(env, acc, i) ==
    IF i > Len(acc.out) \/ acc.st /= "run" THEN acc
    ELSE IF env.ab.phase = "insert" /\ env.ab.idx = i THEN [acc EXCEPT !.st = "cancelled"]
    ELSE CHOOSE r \in { InsertLoop(env, next, i + 1) :
                          next \in { InsertOne(env, acc, acc.out[i]) } } : TRUE

\* mutant: the transaction is committed however the function is left
TransactionEnd_AlwaysCommit(useTransaction, st) ==
    IF useTransaction THEN "committed" ELSE "caller"

\* lines 747-750 and 861: the std::unique_ptr<SQLite::Transaction> of the merge. It is
\* committed at the end of the function; left earlier (return, exception), its destructor
\* rolls the transaction back. Without useTransaction the caller's transaction decides.
TransactionEnd(useTransaction, st) ==
    IF ~useTransaction THEN "caller"
    ELSE IF st = "done" THEN "committed" ELSE "rolledback"

\* the end of mergePatchesIntoDatabase: c is the state after the first loop, ins the state
\* after the third loop. Lines 857-863, and the early returns of lines 755 and 824.
MergeReturn(tbl, imp, useTransaction, c, ins) ==
    LET st == IF ins.st = "run" THEN "done" ELSE ins.st
        txn == TransactionEnd(useTransaction, st)
    IN  [t |-> IF txn = "rolledback" THEN tbl ELSE ins.t,
         imp |-> IF st = "done" THEN InsertImports(imp, importsToBeCreated(c.out), 1) ELSE imp,
         out |-> c.out,
         steps |-> c.steps,
         st |-> st,
         ret |-> IF st \in {"threw", "crashed"} THEN -1
                 ELSE IF c.st = "cancelled" THEN 0 ELSE ins.sumOfAll,
         txn |-> txn]

\* mergePatchesIntoDatabase from line 797 on: the new patches of c.out are inserted
MergeNewPatches(tbl, imp, env, useTransaction, c) ==
    CHOOSE r \in
        { MergeReturn(tbl, imp, useTransaction, c, ins) :
            ins \in { InsertLoop(env, [t |-> c.t, out |-> c.out, md5Inserted |-> <<>>,
                                       sumOfAll |-> 0, st |-> c.st], 1) } } : TRUE

\* mergePatchesIntoDatabase from line 753 on: env holds the arguments and the probe result
MergeKnownPatches(tbl, imp, env, useTransaction) ==
    CHOOSE r \in
        { MergeNewPatches(tbl, imp, env, useTransaction, c) :
            c \in { ClassifyLoop(env, [t |-> tbl, out |-> <<>>, steps |-> <<>>,
                                       st |-> "run"], 1) } } : TRUE

\* mergePatchesIntoDatabase(patches, outNewPatches, progress, updateChoice, useTransaction).
\* st: "done" (ran to the commit), "cancelled" (returned early), "threw" (exception left the
\* function), "crashed" (null dereference). The SQLite::Transaction the function owns rolls
\* back in its destructor when the function is left before the commit.
mergePatchesIntoDatabase(tbl, imp, bf, algo, batch, updateChoice, ab, useTransaction) ==
    CHOOSE r \in
        { MergeKnownPatches(tbl, imp, env, useTransaction) :
            env \in { [bf |-> bf, algo |-> algo, batch |-> batch,
                       known |-> bulkGetPatches(tbl, algo, batch, ab.probe),
                       mask |-> updateChoice, ab |-> ab] } } : TRUE

-----------------------------------------------------------------------------
(* Queries by filter, delete and reindex *)

\* buildWhereClause / bindWhereClause for a filter that sets only synths and importID and
\* whose references are live: the rows it selects
MatchesFilter(filter, row) ==
    /\ filter.synths /= {} => row.synth \in filter.synths
    /\ filter.importID /= "" => row.sourceID = filter.importID

\* getPatchesCount(filter)
getPatchesCount(tbl, filter) ==
    Cardinality({ i \in 1..Len(tbl) : MatchesFilter(filter, tbl[i]) })

\* rank of a sourceID for "ORDER BY sourceID" (the empty string sorts first)
SourceRank(id) == IF id = "" THEN 0 ELSE StrRank(id)

\* getPatches(filter, result, needsReindexing, 0, -1): the positions of the selected rows in
\* query order (ORDER BY sourceID, midiBankNo, midiProgramNo; bank and program are the same
\* for all rows here, ties come in rowid order); rows of a synth that is not in the filter's
\* map are skipped
QueryKey(tbl, i) == SourceRank(tbl[i].sourceID) * 100 + i

getPatches(tbl, filter) ==
    LET sel == { i \in 1..Len(tbl) :
                   MatchesFilter(filter, tbl[i]) /\ tbl[i].synth \in filter.synths }
    IN  SortedBy(sel, [i \in sel |-> QueryKey(tbl, i)])

\* a getPatches that reports every row it returns
needsReindexing_All(tbl, bf, algo, filter) == getPatches(tbl, filter)

\* the needsReindexing list of getPatches: positions of the rows whose stored md5 differs from
\* the fingerprint of the reloaded patch
needsReindexing(tbl, bf, algo, filter) ==
    LET q == getPatches(tbl, filter)
        bad == { k \in 1..Len(q) : md5(algo, loadPatchFromQueryRow(bf, tbl[q[k]])) /= tbl[q[k]].md5 }
        order == SortedBy(bad, [k \in bad |-> k])
    IN  [k \in 1..Len(order) |-> q[order[k]]]

\* the two output vectors of getPatches: the reloaded patches in query order, and the
\* pairs (stored md5, reloaded patch) of the rows that need reindexing
getPatchesResult(tbl, bf, filter) ==
    LET q == getPatches(tbl, filter)
    IN  [k \in 1..Len(q) |-> loadPatchFromQueryRow(bf, tbl[q[k]])]

getPatchesReport(tbl, bf, algo, filter) ==
    LET pos == needsReindexing(tbl, bf, algo, filter)
    IN  [k \in 1..Len(pos) |-> <<tbl[pos[k]].md5, loadPatchFromQueryRow(bf, tbl[pos[k]])>>]

\* deletePatches(filter): DELETE FROM patches WHERE ...
deletePatchesByFilter(tbl, filter) == SelectSeq(tbl, LAMBDA r : ~MatchesFilter(filter, r))

\* deletePatches(synth, md5s): one DELETE per md5
deletePatchesByMd5(tbl, synth, md5s) ==
    SelectSeq(tbl, LAMBDA r : ~(r.synth = synth /\ r.md5 \in Range(md5s)))

\* reindexPatches from line 927 on: the rows are deleted and the reloaded patches merged
ReindexMerge(tbl, imp, bf, algo, filter, afterDelete, toBeReinserted) ==
    CHOOSE r \in
        { IF m.st /= "done"
          THEN [t |-> tbl, imp |-> imp, ret |-> -1, st |-> m.st, reindexed |-> toBeReinserted]
          ELSE [t |-> m.t, imp |-> m.imp, ret |-> getPatchesCount(m.t, filter), st |-> "done",
                reindexed |-> toBeReinserted] :
            m \in { mergePatchesIntoDatabase(afterDelete, imp, bf, algo, toBeReinserted,
                                             UPDATE_ALL, NoAbort, FALSE) } } : TRUE

\* reindexPatches from line 914 on: pos are the positions of the rows to be reindexed
ReindexRows(tbl, imp, bf, algo, filter, pos) ==
    CHOOSE r \in
        { IF Len(tbl) - Len(afterDelete) /= Len(pos)
          THEN [t |-> tbl, imp |-> imp, ret |-> -1, st |-> "done", reindexed |-> toBeReinserted]
          ELSE ReindexMerge(tbl, imp, bf, algo, filter, afterDelete, toBeReinserted) :
            toBeReinserted \in { [k \in 1..Len(pos) |-> loadPatchFromQueryRow(bf, tbl[pos[k]])] },
            afterDelete \in { deletePatchesByMd5(tbl, CHOOSE x \in filter.synths : TRUE,
                                                [k \in 1..Len(pos) |-> tbl[pos[k]].md5]) } } : TRUE

\* a reindexPatches without the check of the number of synths
reindexPatches_AnyFilter(tbl, imp, bf, algo, filter) ==
    CHOOSE r \in
        { IF Len(pos) = 0
          THEN [t |-> tbl, imp |-> imp, ret |-> getPatchesCount(tbl, filter), st |-> "done",
                reindexed |-> <<>>]
          ELSE ReindexRows(tbl, imp, bf, algo, filter, pos) :
            pos \in { needsReindexing(tbl, bf, algo, filter) } } : TRUE

\* reindexPatches(filter). ret is the returned count, -1 on refusal or failure; st as for merge
reindexPatches(tbl, imp, bf, algo, filter) ==
    IF Cardinality(filter.synths) > 1
    THEN [t |-> tbl, imp |-> imp, ret |-> -1, st |-> "done", reindexed |-> <<>>]
    ELSE CHOOSE r \in
            { IF Len(pos) = 0
              THEN [t |-> tbl, imp |-> imp, ret |-> getPatchesCount(tbl, filter), st |-> "done",
                    reindexed |-> <<>>]
              ELSE ReindexRows(tbl, imp, bf, algo, filter, pos) :
                pos \in { needsReindexing(tbl, bf, algo, filter) } } : TRUE

-----------------------------------------------------------------------------
(* Opening a database file: createSchema, migrateSchema and the constructors *)

SCHEMA_VERSION == 6

READ_ONLY == "READ_ONLY"
READ_WRITE == "READ_WRITE"
READ_WRITE_NO_BACKUPS == "READ_WRITE_NO_BACKUPS"
OpenMode == {READ_ONLY, READ_WRITE, READ_WRITE_NO_BACKUPS}

\* the tables createSchema knows, and the columns of patches that migrations add
Tables == {"patches", "imports", "categories", "schema_version", "lists", "patch_in_list"}
MigratedColumns == {"hidden", "type", "midiBankNo"}

\* A database file: whether it exists and can be written, its tables, the migrated columns
\* of patches, the row of schema_version (hasVersion FALSE: no row), the rows of
\* categories, and the number of -before-migration backups that lie beside it.
NewFile ==
    [exists |-> FALSE, writable |-> TRUE, tables |-> {}, cols |-> {}, hasVersion |-> FALSE,
     version |-> 0, categories |-> {}, beforeMigration |-> 0]

\* SQLite::Database::Database(filename, flags): OPEN_READONLY needs an existing file,
\* OPEN_READWRITE | OPEN_CREATE creates a missing one
CanOpen(file, mode) == file.exists \/ mode /= READ_ONLY

\* writes fail with SQLITE_READONLY on a connection opened read-only and on a file that is
\* write protected
IsReadonly(file, mode) == mode = READ_ONLY \/ ~file.writable

\* the first transaction of createSchema: every missing table is created, a new categories
\* table gets the default categories; st is "ok" or the SQLite error code of the failure
CreateTables(file, mode) ==
    LET missing == { t \in Tables \ {"patch_in_list"} : t \notin file.tables }
        created == missing \cup (IF "lists" \in missing THEN {"patch_in_list"} ELSE {})
    IN  IF missing = {} THEN [file |-> [file EXCEPT !.exists = TRUE], st |-> "ok"]
        ELSE IF IsReadonly(file, mode) THEN [file |-> file, st |-> "SQLITE_READONLY"]
        ELSE [file |-> [file EXCEPT !.exists = TRUE,
                                    !.tables = file.tables \cup created,
                                    !.cols = IF "patches" \in missing THEN MigratedColumns
                                             ELSE file.cols,
                                    !.categories = IF "categories" \in missing
                                                   THEN insertDefaultCategories
                                                   ELSE file.categories],
              st |-> "ok"]

\* a backupIfNecessary that does not look at the flag: one backup per migration block
backupIfNecessary_EveryStep(acc, mode) ==
    IF mode = READ_WRITE
    THEN [acc EXCEPT !.file.beforeMigration = @ + 1, !.hasBackuped = TRUE]
    ELSE acc

\* backupIfNecessary(done): one -before-migration backup, in READ_WRITE mode only
backupIfNecessary(acc, mode) ==
    IF ~acc.hasBackuped /\ mode = READ_WRITE
    THEN [acc EXCEPT !.file.beforeMigration = @ + 1,
                     !.hasBackuped = TRUE]
    ELSE acc

\* the blocks of migrateSchema, each one the migration to that version
MigrationSteps == <<2, 3, 4, 5, 6>>

\* the error the statements of the block to version k end with, "ok" if they succeed:
\* ALTER TABLE ADD COLUMN is rejected when the column exists, every write is rejected with
\* SQLITE_READONLY on a read-only connection, and the write of step failStep fails for a
\* reason of the environment (disk full, file locked)
StepError(file, mode, k, failStep) ==
    IF \/ k = 2 /\ "hidden" \in file.cols
       \/ k = 3 /\ "type" \in file.cols
       \/ k = 5 /\ "midiBankNo" \in file.cols
    THEN "SQLITE_ERROR"
    ELSE IF IsReadonly(file, mode) THEN "SQLITE_READONLY"
    ELSE IF failStep = k THEN "SQLITE_ERROR"
    ELSE "ok"

\* a migration block that commits its changes and leaves schema_version as it was
MigrationStep_KeepVersion(file, k) ==
    [file EXCEPT !.cols = @ \cup (IF k = 2 THEN {"hidden"}
                                  ELSE IF k = 3 THEN {"type"}
                                  ELSE IF k = 5 THEN {"midiBankNo"} ELSE {})]

\* the committed transaction of the block to version k (lines 130-168)
MigrationStep(file, k) ==
    [file EXCEPT !.cols = @ \cup (IF k = 2 THEN {"hidden"}
                                  ELSE IF k = 3 THEN {"type"}
                                  ELSE IF k = 5 THEN {"midiBankNo"} ELSE {}),
                 !.tables = IF k = 6 THEN @ \cup {"categories"} ELSE @,
                 !.categories = IF k = 6 /\ "categories" \notin file.tables
                                THEN insertDefaultCategories ELSE @,
                 !.version = k]

\* what the block to version k has written inside its transaction when its statements end
\* with an error: nothing when its first statement is rejected, the effect of the first
\* statement when the UPDATE of schema_version or the commit fails
WrittenBeforeError(file, mode, k) ==
    IF \/ k = 2 /\ "hidden" \in file.cols
       \/ k = 3 /\ "type" \in file.cols
       \/ k = 5 /\ "midiBankNo" \in file.cols
       \/ IsReadonly(file, mode)
    THEN file
    ELSE [file EXCEPT !.cols = @ \cup (IF k = 2 THEN {"hidden"}
                                       ELSE IF k = 3 THEN {"type"}
                                       ELSE IF k = 5 THEN {"midiBankNo"} ELSE {}),
                      !.tables = IF k = 6 THEN @ \cup {"categories"} ELSE @,
                      !.categories = IF k = 6 /\ "categories" \notin file.tables
                                     THEN insertDefaultCategories ELSE @]

\* migrateSchema(currentVersion): the blocks i, i+1, ... of MigrationSteps; acc holds the
\* file, the flag hasBackuped, the versions written so far and the error that ended it
RECURSIVE MigrateFrom(_, _, _, _, _)
MigrateFrom(acc, mode, currentVersion, failStep, i) ==
    IF i > Len(MigrationSteps) \/ acc.st /= "ok" THEN acc
    ELSE IF ~(currentVersion < MigrationSteps[i])
         THEN MigrateFrom(acc, mode, currentVersion, failStep, i + 1)
    ELSE LET b == backupIfNecessary(acc, mode)
             e == StepError(b.file, mode, MigrationSteps[i], failStep)
         IN  IF e /= "ok"
             THEN \* the transaction of the block is destroyed without commit
                  [b EXCEPT !.st = e,
                            !.file = Rollback(b.file,
                                              WrittenBeforeError(b.file, mode,
                                                                 MigrationSteps[i]))]
             ELSE MigrateFrom([b EXCEPT !.file = MigrationStep(b.file, MigrationSteps[i]),
                                        !.trace = Append(@, MigrationSteps[i])],
                              mode, currentVersion, failStep, i + 1)

migrateSchema(file, mode, currentVersion, failStep) ==
    MigrateFrom([file |-> file, hasBackuped |-> FALSE, trace |-> <<>>, st |-> "ok"],
                mode, currentVersion, failStep, 1)

\* the second half of createSchema (lines 223-262): the check of the stored version.
\* thrown is "none" or what leaves createSchema: an SQLite::Exception with its error code,
\* a PatchDatabaseReadonlyException, or the pointer thrown for a version of the future.
CheckVersion(file, mode, failStep) ==
    IF file.hasVersion
    THEN IF file.version < SCHEMA_VERSION
         THEN LET m == migrateSchema(file, mode, file.version, failStep)
              IN  [file |-> m.file, trace |-> m.trace,
                   thrown |-> IF m.st = "ok" THEN "none"
                              ELSE IF m.st = "SQLITE_READONLY"
                                   THEN "PatchDatabaseReadonlyException"
                              ELSE "SQLite::Exception(SQLITE_ERROR)"]
         ELSE IF file.version > SCHEMA_VERSION
              THEN [file |-> file, trace |-> <<>>, thrown |-> "SQLite::Exception*"]
         ELSE [file |-> file, trace |-> <<>>, thrown |-> "none"]
    ELSE IF IsReadonly(file, mode)
         THEN [file |-> file, trace |-> <<>>, thrown |-> "SQLite::Exception(SQLITE_READONLY)"]
    ELSE [file |-> [file EXCEPT !.hasVersion = TRUE, !.version = SCHEMA_VERSION],
          trace |-> <<>>, thrown |-> "none"]

createSchema(file, mode, failStep) ==
    LET c == CreateTables(file, mode)
    IN  IF c.st /= "ok"
        THEN [file |-> c.file, trace |-> <<>>, thrown |-> "SQLite::Exception(SQLITE_READONLY)"]
        ELSE CheckVersion(c.file, mode, failStep)

\* PatchDataBaseImpl::PatchDataBaseImpl(databaseFile, mode): the connection, then
\* createSchema; nothing is caught here
PatchDataBaseImpl(file, mode, failStep) ==
    IF ~CanOpen(file, mode)
    THEN [file |-> file, trace |-> <<>>, thrown |-> "SQLite::Exception(SQLITE_CANTOPEN)"]
    ELSE createSchema(file, mode, failStep)

\* PatchDatabase::PatchDatabase(databaseFile, mode): an SQLite::Exception caught by
\* reference becomes a PatchDatabaseReadonlyException or a PatchDatabaseException;
\* everything else that was thrown passes through
OpenDatabase(file, mode, failStep) ==
    LET impl == PatchDataBaseImpl(file, mode, failStep)
    IN  [file |-> impl.file, trace |-> impl.trace,
         result |-> IF impl.thrown = "none" THEN "ok"
                    ELSE IF impl.thrown = "SQLite::Exception(SQLITE_READONLY)"
                         THEN "PatchDatabaseReadonlyException"
                    ELSE IF impl.thrown \in {"SQLite::Exception(SQLITE_ERROR)",
                                             "SQLite::Exception(SQLITE_CANTOPEN)"}
                         THEN "PatchDatabaseException"
                    ELSE impl.thrown]

\* the files found on disk: none yet, files written by the program when its schema had
\* version v (version 7 is a file of a later program), and a file whose tables exist and
\* whose schema_version table is empty; each of them writable or write protected
FileOfVersion(v, w) ==
    [exists |-> TRUE, writable |-> w,
     tables |-> {"patches", "imports", "schema_version"}
                \cup (IF v >= 6 THEN {"categories"} ELSE {})
                \cup (IF v >= 7 THEN {"lists", "patch_in_list"} ELSE {}),
     cols |-> (IF v >= 2 THEN {"hidden"} ELSE {}) \cup (IF v >= 3 THEN {"type"} ELSE {})
              \cup (IF v >= 5 THEN {"midiBankNo"} ELSE {}),
     hasVersion |-> TRUE, version |-> v,
     categories |-> IF v >= 6 THEN insertDefaultCategories ELSE {},
     beforeMigration |-> 0]

FilesOnDisk ==
    {NewFile}
    \cup { FileOfVersion(v, w) : v \in 1..(SCHEMA_VERSION + 1), w \in BOOLEAN }
    \cup { [exists |-> TRUE, writable |-> w, tables |-> Tables, cols |-> MigratedColumns,
            hasVersion |-> FALSE, version |-> 0, categories |-> insertDefaultCategories,
            beforeMigration |-> 0] : w \in BOOLEAN }

-----------------------------------------------------------------------------
(* State machine *)

Holder(synth, data, name, cats, ud, fav, hidden, src, sid) ==
    [synth |-> synth, data |-> data, name |-> name, cats |-> cats, ud |-> ud,
     fav |-> fav, hidden |-> hidden, src |-> src, sid |-> sid]

\* the answers of shouldAbort() one merge call can see (idx counts the items of a loop)
Aborts ==
    { [probe |-> p, phase |-> ph, idx |-> i] :
        p \in BOOLEAN, ph \in {"classify", "insert"}, i \in 1..MaxBatch }
    \cup { [probe |-> p, phase |-> "none", idx |-> 0] : p \in BOOLEAN }

\* a PatchFilter (PatchFilter.h) that selects nothing: synths holds the keys of the map of
\* weak references, expired the keys whose reference has expired
NoFilter ==
    [synths |-> {}, expired |-> {}, importID |-> "", listID |-> "", name |-> "",
     onlyFaves |-> FALSE, onlySpecifcType |-> FALSE, typeID |-> 0, showHidden |-> TRUE,
     onlyUntagged |-> FALSE, categories |-> {}]

NoOp ==
    [op |-> "none", batch |-> <<>>, mask |-> {}, ab |-> NoAbort, st |-> "done",
     ret |-> 0, out |-> <<>>, steps |-> <<>>, txn |-> "none", filter |-> NoFilter,
     pre |-> <<>>, preImp |-> <<>>, preAlgo |-> 1,
     file |-> NewFile, mode |-> READ_WRITE, failStep |-> 0, trace |-> <<>>,
     after |-> NewFile, report |-> <<>>,
     preCat |-> {}, preBf |-> <<>>, defs |-> <<>>, rules |-> <<>>,
     stmt |-> <<>>, binds |-> <<>>, sel |-> {}, skipped |-> <<>>, skip |-> 0, limit |-> -1,
     listing |-> <<>>, kept |-> <<>>, removed |-> <<>>, failed |-> <<>>,
     data |-> <<>>, str |-> <<>>, fail |-> [kind |-> "none", at |-> 0]]

\* state after construction on a new file: createSchema has made the tables and the default
\* categories, the constructor has loaded them into the bitfield
Init ==
    /\ catTable = insertDefaultCategories
    /\ bitfield = ActiveDefinitions(insertDefaultCategories)
    /\ categoryDefinitions_ = getCategories(insertDefaultCategories)
    /\ patches = <<>>
    /\ imports = <<>>
    /\ fpAlgo = 1
    /\ db = [file |-> OpenDatabase(NewFile, READ_WRITE, 0).file, mode |-> READ_WRITE]
    /\ patchInList = <<>>
    /\ issued = <<>>
    /\ pool = <<>>
    /\ running = {}
    /\ messageQueue = <<>>
    /\ callbacks = <<>>
    /\ released = {}
    /\ crashed = FALSE
    /\ thread = [t \in {"message", "worker"} |-> [op |-> "none", pc |-> 1]]
    /\ categoryLock = [owner |-> "none", depth |-> 0]
    /\ nOps = 0
    /\ last = NoOp

\* The exploration observes one operation per behaviour: "last" records the arguments and
\* the result of the observed operation, which ends the behaviour; the operations before it
\* build the catalog and leave "last" empty.
Observe(rec) ==
    \E obs \in BOOLEAN :
        /\ last' = IF obs THEN rec ELSE NoOp
        /\ nOps' = IF obs THEN MaxOps ELSE nOps + 1

\* PatchDatabase::mergePatchesIntoDatabase(patches, outNewPatches, progress, updateChoice):
\* the public merge, which always runs in its own transaction
DoMerge(batch, updateChoice, ab) ==
    /\ nOps < MaxOps
    /\ \E m \in { mergePatchesIntoDatabase(patches, imports, bitfield, fpAlgo, batch,
                                            updateChoice, ab, TRUE) } :
        /\ patches' = m.t
        /\ imports' = m.imp
        /\ Observe([NoOp EXCEPT !.op = "merge", !.batch = batch, !.mask = updateChoice,
                                !.ab = ab,
                                !.st = m.st, !.ret = m.ret, !.out = m.out, !.steps = m.steps,
                                !.txn = m.txn, !.pre = patches, !.preImp = imports,
                                !.preAlgo = fpAlgo])
        /\ UNCHANGED <<catTable, bitfield, categoryDefinitions_, fpAlgo, db, patchInList,
                       threadVars>>

\* PatchDatabase::putPatch(patch): a merge of the one patch with UPDATE_ALL and no progress
\* handler; the size_t result is converted to bool
DoPutPatch(h) ==
    /\ nOps < MaxOps
    /\ \E m \in { mergePatchesIntoDatabase(patches, imports, bitfield, fpAlgo, <<h>>,
                                            UPDATE_ALL, NoAbort, TRUE) } :
        /\ patches' = m.t
        /\ imports' = m.imp
        /\ Observe([NoOp EXCEPT !.op = "putPatch", !.batch = <<h>>, !.mask = UPDATE_ALL,
                                !.st = m.st, !.ret = IF m.ret > 0 THEN 1 ELSE m.ret,
                                !.out = m.out, !.steps = m.steps,
                                !.txn = m.txn, !.pre = patches, !.preImp = imports,
                                !.preAlgo = fpAlgo])
        /\ UNCHANGED <<catTable, bitfield, categoryDefinitions_, fpAlgo, db, patchInList,
                       threadVars>>

\* PatchDatabase::reindexPatches(filter)
DoReindex(filter) ==
    /\ nOps < MaxOps
    /\ \E r \in { reindexPatches(patches, imports, bitfield, fpAlgo, filter) } :
        /\ patches' = r.t
        /\ imports' = r.imp
        /\ Observe([NoOp EXCEPT !.op = "reindex", !.filter = filter, !.batch = r.reindexed,
                                !.st = r.st, !.ret = r.ret,
                                !.pre = patches, !.preImp = imports, !.preAlgo = fpAlgo])
        /\ UNCHANGED <<catTable, bitfield, categoryDefinitions_, fpAlgo, db, patchInList,
                       threadVars>>

\* PatchDatabase::deletePatches(filter)
DoDelete(filter) ==
    /\ nOps < MaxOps
    /\ patches' = deletePatchesByFilter(patches, filter)
    /\ Observe([NoOp EXCEPT !.op = "delete", !.filter = filter,
                            !.ret = Len(patches) - Len(deletePatchesByFilter(patches, filter)),
                            !.pre = patches, !.preImp = imports, !.preAlgo = fpAlgo])
    /\ UNCHANGED <<catTable, bitfield, categoryDefinitions_, imports, fpAlgo, db,
                   patchInList, threadVars>>

\* PatchDataBaseImpl::getPatches(filter, result, needsReindexing, 0, -1): the result vector and the
\* needs-reindex report; no table changes
DoGetPatches(filter) ==
    /\ nOps < MaxOps
    /\ Observe([NoOp EXCEPT !.op = "getPatches", !.filter = filter,
                            !.out = getPatchesResult(patches, bitfield, filter),
                            !.report = getPatchesReport(patches, bitfield, fpAlgo, filter),
                            !.pre = patches, !.preImp = imports, !.preAlgo = fpAlgo])
    /\ UNCHANGED <<catTable, bitfield, categoryDefinitions_, patches, imports, fpAlgo, db,
                   patchInList, threadVars>>

\* the adapter of synth A is replaced by a version with another fingerprint algorithm
ChangeFingerprint ==
    /\ nOps < MaxOps
    /\ fpAlgo = 1
    /\ fpAlgo' = 2
    /\ UNCHANGED <<catTable, bitfield, categoryDefinitions_, patches, imports, db,
                   patchInList, threadVars,
                   nOps, last>>

\* the holders, update masks and filters the catalog specification draws its inputs from
HoldersMain ==
    { Holder("A", d, n, {}, {}, "DONTKNOW", FALSE, "s1", "") :
        d \in {"d1", "d2"}, n \in {"Init", "N1"} }
    \cup { Holder("B", "d1", "N1", {}, {}, "DONTKNOW", FALSE, "s1", "") }

MasksMain == {UPDATE_ALL, {UpdateNAME}}

FiltersMain == { [NoFilter EXCEPT !.synths = S] : S \in SUBSET Synths }

Merge == \E batch \in SeqsUpTo(HoldersMain, MaxBatch), m \in MasksMain, ab \in Aborts :
            DoMerge(batch, m, ab)

PutPatch == \E h \in HoldersMain : DoPutPatch(h)

Reindex == \E f \in FiltersMain : DoReindex(f)

Delete == \E f \in FiltersMain : DoDelete(f)

GetPatches == \E f \in FiltersMain : DoGetPatches(f)

Next == Merge \/ PutPatch \/ Reindex \/ Delete \/ GetPatches \/ ChangeFingerprint

Spec == Init /\ [][Next]_vars

-----------------------------------------------------------------------------
(* The category specification SpecCat: merges of holders with categories and user
   decisions, between edits of the category definitions *)

\* PatchDatabase::updateCategories(newdefs) with one definition of the table whose active
\* flag is set or cleared; the function ends with getCategories, which rebuilds the bitfield
DoUpdateCategories(newdefs) ==
    /\ nOps < MaxOps
    /\ catTable' = updateCategories(catTable, newdefs, 1)
    /\ bitfield' = ActiveDefinitions(catTable')
    /\ categoryDefinitions_' = getCategories(catTable')
    /\ UNCHANGED <<patches, imports, fpAlgo, db, patchInList, threadVars, nOps, last>>

UpdateCategories ==
    \E r \in catTable :
        DoUpdateCategories(<<[id |-> r.bitIndex, name |-> r.name, active |-> ~r.active]>>)

HolderCategoryNames == {"Pad", "Brass"}

HoldersCat ==
    { Holder("A", "d1", "N1", c, u, "DONTKNOW", FALSE, "s1", "") :
        c \in SUBSET HolderCategoryNames, u \in SUBSET HolderCategoryNames }

MasksCat == {UPDATE_ALL, {UpdateCATEGORIES}}

MergeCat == \E h \in HoldersCat, m \in MasksCat : DoMerge(<<h>>, m, NoAbort)

NextCat == MergeCat \/ UpdateCategories

SpecCat == Init /\ [][NextCat]_vars

-----------------------------------------------------------------------------
(* The import specification SpecImport: merges of holders with and without source info *)

HoldersImport ==
    { Holder("A", "d1", "N1", {}, {}, "DONTKNOW", FALSE, src, "") :
        src \in {"none", "eb", "s1", "s2"} }
    \cup { Holder("B", "d1", "N1", {}, {}, "DONTKNOW", FALSE, "s2", ""),
           Holder("A", "d1", "N1", {}, {}, "DONTKNOW", FALSE, "s1", "u2"),
           Holder("A", "d2", "N1", {}, {}, "DONTKNOW", FALSE, "s1", ""),
           Holder("A", "d2", "N1", {}, {}, "DONTKNOW", FALSE, "s3", "") }

MergeImport == \E batch \in SeqsUpTo(HoldersImport, MaxBatch) : DoMerge(batch, UPDATE_ALL, NoAbort)

DeleteImport == \E f \in FiltersMain : DoDelete(f)

NextImport == MergeImport \/ DeleteImport

SpecImport == Init /\ [][NextImport]_vars

-----------------------------------------------------------------------------
(* Properties of the catalog specification Spec *)

IsMerge == last.op \in {"merge", "putPatch"}

\* some call of shouldAbort() answered true during the observed merge
ProbeAborted == last.ab.probe /\ Len(last.batch) > 0
Uncancelled == last.st = "done" /\ ~ProbeAborted

RowOf(tbl, synth, fp) == tbl[Min(RowsAt(tbl, synth, fp))]
HasRow(tbl, synth, fp) == RowsAt(tbl, synth, fp) /= {}
Fp(h) == md5(last.preAlgo, h)

\* C7: Patch identity invariant: in every reachable state the patches table holds at most
\* one row for each (synth, md5) pair.
C7_PatchIdentity ==
    \A i, j \in 1..Len(patches) :
        (patches[i].synth = patches[j].synth /\ patches[i].md5 = patches[j].md5) => i = j

\* witness of C7: a merge whose probe was aborted ran on with an empty probe result and tried
\* to insert a holder whose row already existed
C7_Witness ==
    /\ last.op = "merge" /\ last.st = "done" /\ ProbeAborted
    /\ \E i \in 1..Len(last.out) : HasRow(last.pre, last.out[i].synth, Fp(last.out[i]))
    /\ Len(patches) >= 1

\* the incoming holders of the observed merge that the probe did not find: no holder of the
\* batch with that fingerprint has a row of its own synth
ProbeMissed(h) ==
    ~\E i \in 1..Len(last.batch) :
        /\ Fp(last.batch[i]) = Fp(h)
        /\ HasRow(last.pre, last.batch[i].synth, Fp(h))

\* the holders of the batch that are not in the catalog (no row for their synth and md5)
NotInCatalog(h) == ~HasRow(last.pre, h.synth, Fp(h))

\* s without the elements whose fingerprint occurs earlier in s
DedupByFingerprint(s) ==
    LET keep == { i \in 1..Len(s) : \A j \in 1..(i - 1) : Fp(s[j]) /= Fp(s[i]) }
        order == SortedBy(keep, [i \in keep |-> i])
    IN  [k \in 1..Len(order) |-> s[order[k]]]

CountedBefore(idx) == Cardinality({ Fp(last.out[i]) : i \in 1..(idx - 1) })

\* C9 (as claimed): a cancelled merge returns the number of patches written so far and
\* neither commits nor rolls back the open transaction.
C9_TransactionLeftOpen ==
    (last.op = "merge" /\ last.st = "cancelled")
        => /\ last.ret = IF last.ab.phase = "insert" THEN CountedBefore(last.ab.idx) ELSE 0
           /\ last.txn \notin {"committed", "rolledback"}

\* C9 (amended): a cancelled merge returns the number of new patches the insert loop has
\* counted so far (0 when cancelled in the classify loop, also after an aborted probe), and
\* its transaction is rolled back: patches and imports are as before the call.
C9_CancelRollsBack ==
    (last.op = "merge" /\ last.st = "cancelled")
        => /\ last.ret = IF last.ab.phase = "insert" THEN CountedBefore(last.ab.idx) ELSE 0
           /\ last.txn = "rolledback"
           /\ patches = last.pre
           /\ imports = last.preImp

\* witness of C9: a merge cancelled in the insert loop after it had inserted a patch
C9_Witness ==
    /\ last.op = "merge" /\ last.st = "cancelled"
    /\ last.ab.phase = "insert" /\ last.ret = 1

\* C6 (as claimed): after a merge that runs to completion every holder of the batch is
\* stored, and one new patch merged into an empty catalog gives one patch row and one
\* import row.
C6_AllStored ==
    (last.op = "merge" /\ Uncancelled)
        => /\ \A i \in 1..Len(last.batch) :
                 /\ HasRow(patches, last.batch[i].synth, Fp(last.batch[i]))
                 /\ getSinglePatch(patches, bitfield, last.batch[i].synth, Fp(last.batch[i]))
                        /= NoRow
           /\ (last.pre = <<>> /\ Len(last.batch) = 1)
                 => (Len(patches) = 1 /\ Len(imports) = Len(last.preImp) + 1)

\* C3: Default-name protection: when a merge processes an incoming holder with a default
\* name, every row that holds a non-default name keeps its name; and a merge of one such
\* holder leaves the name of its row unchanged whatever the update mask.
C3_DefaultNameProtection ==
    IsMerge =>
        /\ \A k \in 1..Len(last.steps) :
             LET step == last.steps[k]
             IN  hasDefaultName(step.incoming.synth, step.incoming.name)
                 => \A i \in 1..Len(step.before) :
                      ~hasDefaultName(step.before[i].synth, step.before[i].name)
                      => step.after[i].name = step.before[i].name
        /\ (Len(last.batch) = 1 /\ hasDefaultName(last.batch[1].synth, last.batch[1].name))
             => \A i \in 1..Len(last.pre) :
                  (/\ last.pre[i].synth = last.batch[1].synth
                   /\ last.pre[i].md5 = Fp(last.batch[1])
                   /\ ~hasDefaultName(last.pre[i].synth, last.pre[i].name))
                  => (i <= Len(patches) /\ patches[i].name = last.pre[i].name)

\* witness of C3: a completed merge with UPDATE_NAME in its mask of a default-named holder
\* whose row holds a non-default name
C3_Witness ==
    /\ last.op = "merge" /\ last.st = "done" /\ UpdateNAME \in last.mask
    /\ Len(last.batch) = 1
    /\ hasDefaultName(last.batch[1].synth, last.batch[1].name)
    /\ HasRow(last.pre, last.batch[1].synth, Fp(last.batch[1]))
    /\ ~hasDefaultName(last.batch[1].synth,
                       RowOf(last.pre, last.batch[1].synth, Fp(last.batch[1])).name)
    /\ Len(last.steps) = 1 /\ last.steps[1].path = "full"

-----------------------------------------------------------------------------
(* Properties of the category specification SpecCat *)

\* the position in tbl of the row a step of the classify loop works on
StepRow(step) == Min(RowsAt(step.before, step.incoming.synth, Fp(step.incoming)))

\* a step that reloaded the existing row and updated its category columns
UpdatesCategories(step) == step.path = "full" /\ UpdateCATEGORIES \in step.choices

ActiveNames(bf) == { bf[i].name : i \in 1..Len(bf) }

\* C5 (as claimed): for the bitfield built from the active definitions, whatever their bit
\* indexes, decoding the encoding of a set S of categories gives the members of S that are
\* active.
C5_BitfieldRoundTrip ==
    \A S \in SUBSET CategoryNames :
        makeSetOfCategoriesFromBitfield(bitfield, categorySetAsBitfield(bitfield, S))
            = S \cap ActiveNames(bitfield)

\* C1 (as claimed): when a merge with UPDATE_CATEGORIES updates an existing row, every bit
\* that is set in the row's user decisions and not in the incoming user decisions has the
\* same value in the stored categories after the merge as in the row's categories before.
C1_UserDecisionPreserved ==
    (last.op = "merge" /\ last.st = "done") =>
        \A k \in 1..Len(last.steps) :
            LET step == last.steps[k]
                incomingDecisions == categorySetAsBitfield(bitfield, step.incoming.ud)
            IN  UpdatesCategories(step) =>
                    \A i \in step.before[StepRow(step)].cud \ incomingDecisions :
                        (i \in step.after[StepRow(step)].cats)
                            <=> (i \in step.before[StepRow(step)].cats)

\* the merge rule of the category sets as the claim states it
MergeRuleCategories(incoming, existing) ==
    (incoming.cats \cap incoming.ud)
        \cup ((incoming.cats \ incoming.ud) \ existing.ud)
        \cup ((existing.cats \cap existing.ud) \ incoming.ud)

MergeRuleUserDecisions(incoming, existing) == incoming.ud \cup existing.ud

AllCategoriesActive == \A r \in catTable : r.active

\* C2: Category merge rule: a hit merged with UPDATE_CATEGORIES stores, as masks of the
\* active bitfield, categories = (incoming.categories n incoming.user_decisions) u
\* ((incoming.categories - incoming.user_decisions) - existing.user_decisions) u
\* ((existing.categories n existing.user_decisions) - incoming.user_decisions) and
\* user_decisions = incoming.user_decisions u existing.user_decisions, where existing is the
\* holder loaded from the row; with all definitions active the row reads back as these sets.
C2_CategoryMergeRule ==
    IsMerge =>
        \A k \in 1..Len(last.steps) :
            LET step == last.steps[k]
                row == step.after[StepRow(step)]
                cats == MergeRuleCategories(step.incoming, step.existing)
                ud == MergeRuleUserDecisions(step.incoming, step.existing)
            IN  UpdatesCategories(step) =>
                    /\ row.cats = categorySetAsBitfield(bitfield, cats)
                    /\ row.cud = categorySetAsBitfield(bitfield, ud)
                    /\ AllCategoriesActive =>
                         /\ loadPatchFromQueryRow(bitfield, row).cats = cats
                         /\ loadPatchFromQueryRow(bitfield, row).ud = ud

\* witness of C2: a merge updated the categories of a row where an automatic category of the
\* incoming holder is overridden by a user decision of the row, a user-decided category of
\* the row is kept and the incoming holder brings a user-decided category of its own
C2_Witness ==
    /\ last.op = "merge" /\ last.st = "done" /\ Len(last.steps) = 1
    /\ UpdatesCategories(last.steps[1])
    /\ LET inc == last.steps[1].incoming
           ex == last.steps[1].existing
       IN  /\ ((inc.cats \ inc.ud) \cap ex.ud) /= {}
           /\ ((ex.cats \cap ex.ud) \ inc.ud) /= {}
           /\ AllCategoriesActive

\* a holder is fully present: its row exists and holds its categories, user decisions,
\* favorite, hidden flag and data
FullyPresent(h) ==
    /\ HasRow(last.pre, h.synth, Fp(h))
    /\ LET stored == getSinglePatch(last.pre, bitfield, h.synth, Fp(h))
       IN  /\ stored.cats = h.cats /\ stored.ud = h.ud
           /\ stored.fav = h.fav /\ stored.hidden = h.hidden /\ stored.data = h.data

\* C4 (as claimed): merging holders that are all fully present with UPDATE_ALL adds no
\* patch row and no import row, puts nothing into the new-patches output and changes no
\* column other than name, and name only to a non-default incoming name that differs.
C4_MergeIdempotence ==
    (/\ last.op = "merge" /\ last.mask = UPDATE_ALL /\ Uncancelled
     /\ \A j \in 1..Len(last.batch) : FullyPresent(last.batch[j]))
        => /\ Len(patches) = Len(last.pre)
           /\ imports = last.preImp
           /\ last.out = <<>>
           /\ \A i \in 1..Len(last.pre) :
                /\ [patches[i] EXCEPT !.name = last.pre[i].name] = last.pre[i]
                /\ patches[i].name /= last.pre[i].name
                     => \E j \in 1..Len(last.batch) :
                          /\ last.batch[j].name = patches[i].name
                          /\ ~hasDefaultName(last.batch[j].synth, last.batch[j].name)

\* the bit indexes of the definitions that are marked inactive
InactiveBits == { r.bitIndex : r \in { q \in catTable : ~q.active } }

\* C36: marking a category definition inactive changes the categories and the user
\* decisions of no patch row, and the bits of the inactive definitions that are stored in a
\* patch row are the same after every later merge as before it.
C36_LatentBits ==
    /\ [][catTable' /= catTable => patches' = patches]_vars
    /\ [](last.op = "merge" =>
            \A i \in 1..Len(last.pre) :
                /\ i <= Len(patches)
                /\ patches[i].cats \cap InactiveBits = last.pre[i].cats \cap InactiveBits
                /\ patches[i].cud \cap InactiveBits = last.pre[i].cud \cap InactiveBits)

-----------------------------------------------------------------------------
(* The open specification SpecOpen: database files are opened one after the other, each
   by a new PatchDatabase object that replaces the one before when the open succeeds *)

\* the file of the open database as it is on disk now
CurrentFile == [db.file EXCEPT !.categories = catTable]

\* PatchDatabase::PatchDatabase(databaseFile, mode) and, when it returns, the constructor
\* of the implementation has loaded the categories of the file; the files on disk hold no
\* patches. A failed open leaves the open database as it is, but the changes it has
\* committed to the file stay.
DoOpen(file, mode, failStep) ==
    /\ nOps < MaxOps
    /\ \E o \in { OpenDatabase(file, mode, failStep) } :
        /\ db' = IF o.result = "ok" THEN [file |-> o.file, mode |-> mode]
                 ELSE IF file = CurrentFile THEN [db EXCEPT !.file = o.file]
                 ELSE db
        /\ catTable' = IF o.result = "ok" THEN o.file.categories ELSE catTable
        /\ bitfield' = IF o.result = "ok" THEN ActiveDefinitions(o.file.categories)
                       ELSE bitfield
        /\ categoryDefinitions_' = IF o.result = "ok" THEN getCategories(o.file.categories)
                                   ELSE categoryDefinitions_
        /\ patches' = IF o.result = "ok" /\ file /= CurrentFile THEN <<>> ELSE patches
        /\ imports' = IF o.result = "ok" /\ file /= CurrentFile THEN <<>> ELSE imports
        /\ last' = [NoOp EXCEPT !.op = "open", !.file = file, !.mode = mode,
                                !.failStep = failStep, !.st = o.result, !.trace = o.trace,
                                !.after = o.file]
        /\ nOps' = nOps + 1
        /\ patchInList' = IF o.result = "ok" /\ file /= CurrentFile THEN <<>> ELSE patchInList
        /\ UNCHANGED <<fpAlgo, threadVars>>

\* the steps at which the environment can make a migration fail (0: at none)
FailSteps == {0} \cup Range(MigrationSteps)

Open ==
    \E file \in FilesOnDisk \cup {CurrentFile}, mode \in OpenMode, failStep \in FailSteps :
        DoOpen(file, mode, failStep)

NextOpen == Open

SpecOpen == Init /\ [][NextOpen]_vars

-----------------------------------------------------------------------------
(* The capacity specification SpecCap: category definitions are added, through
   updateCategories and through the rules of getCategorizer, until the bit indexes run out *)

\* PatchDatabase::updateCategories(newdefs), observed
ObserveUpdateCategories(newdefs) ==
    /\ nOps < MaxOps
    /\ \E t \in { updateCategories(catTable, newdefs, 1) } :
        /\ catTable' = t
        /\ bitfield' = ActiveDefinitions(t)
        /\ categoryDefinitions_' = getCategories(t)
        /\ Observe([NoOp EXCEPT !.op = "updateCategories", !.defs = newdefs,
                                !.preCat = catTable, !.preBf = bitfield])
        /\ UNCHANGED <<patches, imports, fpAlgo, db, patchInList, threadVars>>

\* PatchDatabase::getNextBitindex(), which changes nothing
DoGetNextBitindex ==
    /\ nOps < MaxOps
    /\ Observe([NoOp EXCEPT !.op = "getNextBitindex", !.ret = getNextBitindex(catTable),
                            !.preCat = catTable, !.preBf = bitfield])
    /\ UNCHANGED <<catTable, bitfield, categoryDefinitions_, patches, imports, fpAlgo, db,
                   patchInList, threadVars>>

\* PatchDatabase::getCategorizer(): every path that returns or throws has run
\* getCategories on the table as it is then
DoGetCategorizer(rules) ==
    /\ nOps < MaxOps
    /\ \E g \in { getCategorizer(catTable, rules) } :
        /\ catTable' = g.t
        /\ bitfield' = g.bitfield
        /\ categoryDefinitions_' = g.defs
        /\ Observe([NoOp EXCEPT !.op = "getCategorizer", !.rules = rules, !.st = g.st,
                                !.preCat = catTable, !.preBf = bitfield])
        /\ UNCHANGED <<patches, imports, fpAlgo, db, patchInList, threadVars>>

\* definitions for the bit indexes from..(to - 1), named by their number
DefinitionsFor(from, to) ==
    [i \in 1..(to - from) |->
        [id |-> from + i - 1, name |-> ToString(from + i - 1), active |-> TRUE]]

\* the vectors handed to updateCategories: all definitions up to bit index 61 or 62 at
\* once, one definition (active or not) at the index getNextBitindex has returned
\* (-1 included), and one definition at bit index 62 or 63
NewDefinitions ==
    { DefinitionsFor(Len(DefaultCategoryNames), n) : n \in {NumBits - 1, NumBits} }
    \cup { <<[id |-> i, name |-> "New", active |-> a]>> :
             i \in {getNextBitindex(catTable), NumBits - 1, NumBits}, a \in BOOLEAN }

\* the category names of the rules file
RuleSets == { <<>>, <<"Lead">>, <<"Rule1">>, <<"Rule1", "Rule2">> }

UpdateCategoriesCap == \E newdefs \in NewDefinitions : ObserveUpdateCategories(newdefs)

GetNextBitindex == DoGetNextBitindex

GetCategorizer == \E rules \in RuleSets : DoGetCategorizer(rules)

NextCap == UpdateCategoriesCap \/ GetNextBitindex \/ GetCategorizer

SpecCap == Init /\ [][NextCap]_vars

-----------------------------------------------------------------------------
(* Properties of the import specification SpecImport *)

\* the rows the observed merge has inserted
NewRows == { i \in 1..Len(patches) : \A j \in 1..Len(last.pre) : last.pre[j] /= patches[i] }

\* C10 (as claimed): after a completed merge, every row the merge inserted for a holder
\* with source info has an imports row of its synth whose id is the row's sourceID.
C10_ImportIntegrity ==
    (last.op = "merge" /\ Uncancelled) =>
        \A i \in NewRows :
            patches[i].src /= "none"
                => \E k \in 1..Len(imports) :
                     /\ imports[k].synth = patches[i].synth
                     /\ imports[k].id = patches[i].sourceID

\* the rows of an imports table with the key (synth, id)
ImportRows(imp, synthname, source_id) ==
    { k \in 1..Len(imp) : imp[k].synth = synthname /\ imp[k].id = source_id }

\* C11: the imports table holds at most one row per (synth, id); an observed merge leaves
\* the rows that were there as they were, and every row it adds has a key that had no
\* row before the merge.
C11_ImportUniqueness ==
    /\ \A i, j \in 1..Len(imports) :
          (imports[i].synth = imports[j].synth /\ imports[i].id = imports[j].id) => i = j
    /\ last.op = "merge" =>
          /\ Len(last.preImp) <= Len(imports)
          /\ \A k \in 1..Len(last.preImp) : imports[k] = last.preImp[k]
          /\ \A k \in (Len(last.preImp) + 1)..Len(imports) :
                ImportRows(last.preImp, imports[k].synth, imports[k].id) = {}

\* a merge of a batch in which one import id occurs with two display names has run and
\* has left a row for that id
C11_Witness ==
    /\ last.op = "merge" /\ Uncancelled
    /\ \E a, b \in 1..Len(last.batch) :
          /\ last.batch[a].synth = last.batch[b].synth
          /\ last.batch[a].src \notin {"none", "eb"} /\ last.batch[b].src \notin {"none", "eb"}
          /\ SourceInfoMd5(last.batch[a].src) = SourceInfoMd5(last.batch[b].src)
          /\ SourceInfoDisplay(last.batch[a].src) /= SourceInfoDisplay(last.batch[b].src)
          /\ md5(last.preAlgo, last.batch[a]) /= md5(last.preAlgo, last.batch[b])
          /\ ImportRows(last.preImp, last.batch[a].synth, SourceInfoMd5(last.batch[a].src)) = {}
          /\ ImportRows(imports, last.batch[a].synth, SourceInfoMd5(last.batch[a].src)) /= {}

-----------------------------------------------------------------------------
(* Properties of reindexPatches and getPatches under the catalog specification Spec *)

\* the observed operation is a reindex that has not returned -1
ReindexSucceeded == last.op = "reindex" /\ last.st = "done" /\ last.ret /= -1

\* the needs-reindex report of getPatches(filter) on the catalog before the observed
\* operation, as pairs of the stored md5 and the reloaded patch
ReportedBefore(filter) ==
    LET pos == needsReindexing(last.pre, bitfield, last.preAlgo, filter)
    IN  { [md5stored |-> last.pre[pos[k]].md5,
           patch |-> loadPatchFromQueryRow(bitfield, last.pre[pos[k]])] : k \in 1..Len(pos) }

\* C16 (as claimed): after a successful reindex with a filter of one synth, getPatches on the
\* same filter reports no row as needing reindex, and every patch that was reported before
\* has a row under its synth and its recomputed fingerprint.
C16_ReindexPostcondition ==
    (ReindexSucceeded /\ Cardinality(last.filter.synths) = 1) =>
        /\ needsReindexing(patches, bitfield, fpAlgo, last.filter) = <<>>
        /\ \A rep \in ReportedBefore(last.filter) :
              HasRow(patches, rep.patch.synth, md5(fpAlgo, rep.patch))

\* C17: a reindex with a filter of more than one synth returns -1 and leaves the patches
\* table (and the imports table) as it was.
C17_ReindexRefusal ==
    (last.op = "reindex" /\ Cardinality(last.filter.synths) > 1) =>
        /\ last.ret = -1
        /\ patches = last.pre
        /\ imports = last.preImp

\* a reindex over two synths was refused while a row of the catalog needed reindexing
C17_Witness ==
    /\ last.op = "reindex" /\ Cardinality(last.filter.synths) > 1
    /\ last.ret = -1
    /\ needsReindexing(patches, bitfield, fpAlgo, last.filter) /= <<>>

\* C18: for every row getPatches returns, the needs-reindex report holds the pair of the
\* row's stored md5 and the reloaded patch if and only if the stored md5 differs from the
\* fingerprint the adapter computes for the reloaded patch; the report holds nothing else.
C18_DriftReporting ==
    last.op = "getPatches" =>
        LET q == getPatches(last.pre, last.filter)
        IN  /\ Len(last.out) = Len(q)
            /\ \A k \in 1..Len(q) :
                  (\E j \in 1..Len(last.report) :
                      last.report[j] = <<last.pre[q[k]].md5, last.out[k]>>)
                    <=> last.pre[q[k]].md5 /= md5(last.preAlgo, last.out[k])
            /\ \A j \in 1..Len(last.report) :
                  \E k \in 1..Len(q) : last.report[j] = <<last.pre[q[k]].md5, last.out[k]>>

\* getPatches has returned a row whose stored md5 still fits and a row that has drifted
C18_Witness ==
    /\ last.op = "getPatches"
    /\ Len(last.report) = 1
    /\ Len(last.out) = 2

-----------------------------------------------------------------------------
(* Properties of the open specification SpecOpen *)

OpenSucceeded == last.op = "open" /\ last.st = "ok"

\* the observed open found an existing file with a schema_version row
OpenedVersion(v) == last.op = "open" /\ last.file.exists /\ last.file.hasVersion
                    /\ last.file.version = v

\* the number of -before-migration backups the observed open has produced
BackupsProduced == last.after.beforeMigration - last.file.beforeMigration

\* C12: whenever an open succeeds (on a new file, on a file without a schema_version row,
\* on a file of any version up to the compiled one), the schema_version table of the file
\* holds the compiled SCHEMA_VERSION.
C12_SchemaVersionAfterOpen ==
    OpenSucceeded =>
        /\ db.file = last.after
        /\ db.file.hasVersion
        /\ db.file.version = SCHEMA_VERSION

\* an open has migrated a file of an older version through more than one step
C12_Witness ==
    /\ OpenSucceeded
    /\ \E v \in 1..(SCHEMA_VERSION - 2) : OpenedVersion(v)
    /\ Len(last.trace) >= 2

\* C13 (as claimed): a successful open of an existing file of version V <= SCHEMA_VERSION
\* that is not a read-only open produces exactly one -before-migration backup if
\* V < SCHEMA_VERSION and none if V = SCHEMA_VERSION.
C13_BackupUnlessReadOnly ==
    (OpenSucceeded /\ last.mode /= READ_ONLY) =>
        \A v \in 1..SCHEMA_VERSION :
            OpenedVersion(v) => BackupsProduced = (IF v < SCHEMA_VERSION THEN 1 ELSE 0)

\* C13 (amended): a successful open of an existing file of version V <= SCHEMA_VERSION
\* produces exactly one -before-migration backup if V < SCHEMA_VERSION and the mode is
\* READ_WRITE, however many migration blocks run, and none otherwise (V = SCHEMA_VERSION,
\* or the mode is READ_WRITE_NO_BACKUPS or READ_ONLY).
C13_BackupByMode ==
    OpenSucceeded =>
        \A v \in 1..SCHEMA_VERSION :
            OpenedVersion(v) =>
                BackupsProduced = (IF v < SCHEMA_VERSION /\ last.mode = READ_WRITE
                                   THEN 1 ELSE 0)

\* a READ_WRITE open has run several migration blocks and has made one backup
C13_Witness ==
    /\ OpenSucceeded /\ last.mode = READ_WRITE
    /\ \E v \in 1..(SCHEMA_VERSION - 2) : OpenedVersion(v)
    /\ Len(last.trace) >= 2
    /\ BackupsProduced = 1

\* the version the schema history of the source ends with (version 7 adds the lists)
LedgerVersion == 7

\* C14 (as claimed): opening a writable file of version 5 in READ_WRITE mode succeeds,
\* leaves the default categories in a categories table that was missing, creates lists and
\* patch_in_list, and ends with schema_version = 7.
C14_UpgradeFromVersion5 ==
    (last.op = "open" /\ last.file = FileOfVersion(5, TRUE) /\ last.mode = READ_WRITE
                      /\ last.failStep = 0) =>
        /\ last.st = "ok"
        /\ {"categories", "lists", "patch_in_list"} \subseteq last.after.tables
        /\ last.after.categories = insertDefaultCategories
        /\ last.after.hasVersion
        /\ last.after.version = LedgerVersion

\* C15 (as claimed): an open of a file whose stored version exceeds the compiled one ends
\* with a PatchDatabaseException that is not the read-only kind, and an open whose
\* migration fails on a read-only file ends with a PatchDatabaseReadonlyException.
C15_OpenErrorKinds ==
    last.op = "open" =>
        /\ (last.file.exists /\ last.file.hasVersion /\ last.file.version > SCHEMA_VERSION
                /\ last.file.tables = Tables)
              => last.st = "PatchDatabaseException"
        /\ (last.file.exists /\ last.file.hasVersion /\ last.file.version < SCHEMA_VERSION
                /\ IsReadonly(last.file, last.mode))
              => last.st = "PatchDatabaseReadonlyException"

\* the columns of patches the migrations to the versions from + 1 .. to add
ColumnsAdded(from, to) ==
    (IF from < 2 /\ 2 <= to THEN {"hidden"} ELSE {})
    \cup (IF from < 3 /\ 3 <= to THEN {"type"} ELSE {})
    \cup (IF from < 5 /\ 5 <= to THEN {"midiBankNo"} ELSE {})

\* C31: during an open of a file of version V < SCHEMA_VERSION the stored version takes
\* the values V+1, V+2, ... in ascending order, one committed transaction each, up to
\* SCHEMA_VERSION; if the step to version k fails, the stored version is k-1, the columns
\* of all steps up to k-1 are there, the failing step has left nothing, and the open fails.
C31_MigrationOrdering ==
    (last.op = "open" /\ last.file.exists /\ last.file.hasVersion
                      /\ last.file.version < SCHEMA_VERSION) =>
        /\ \A i \in 1..Len(last.trace) : last.trace[i] = last.file.version + i
        /\ last.after.hasVersion
        /\ last.after.version = last.file.version + Len(last.trace)
        /\ last.after.version <= SCHEMA_VERSION
        /\ last.after.cols
              = last.file.cols \cup ColumnsAdded(last.file.version, last.after.version)
        /\ last.st = "ok" <=> last.after.version = SCHEMA_VERSION
        /\ (last.failStep > last.file.version /\ ~IsReadonly(last.file, last.mode))
              => /\ last.after.version = last.failStep - 1
                 /\ last.st /= "ok"

\* the migration of a file of an old version has committed two steps, and the next one,
\* which adds a column, has failed
C31_Witness ==
    /\ last.op = "open" /\ last.st = "PatchDatabaseException"
    /\ last.file.hasVersion /\ last.file.version = 2
    /\ last.trace = <<3, 4>> /\ last.failStep = 5
    /\ last.after.version = 4 /\ "midiBankNo" \notin last.after.cols

-----------------------------------------------------------------------------
(* Properties of the capacity specification SpecCap *)

\* 63 active categories: every bit index 0..62 has an active row
CategoriesFull(tbl) ==
    \A b \in 0..(NumBits - 1) : \E r \in tbl : r.bitIndex = b /\ r.active

\* the definitions of the observed updateCategories call that have no row yet
NewInCall == { k \in 1..Len(last.defs) :
                 \A r \in last.preCat : r.bitIndex /= last.defs[k].id }

\* C19 (as claimed): with 63 active categories getNextBitindex returns -1, and an
\* updateCategories call with a definition that has no row yet leaves the categories table
\* and the bitfield as they were.
C19_CategoryCapacity ==
    CategoriesFull(last.preCat) =>
        /\ last.op = "getNextBitindex" => last.ret = -1
        /\ (last.op = "updateCategories" /\ NewInCall /= {})
              => (catTable = last.preCat /\ bitfield = last.preBf)

\* C20 (as claimed): every definition of the table and of the bitfield has a bit index in
\* 0..62, so the mask of any set of category names has no bit 63.
C20_BitIndexRange ==
    /\ \A r \in catTable : 0 <= r.bitIndex /\ r.bitIndex <= NumBits - 1
    /\ \A i \in 1..Len(bitfield) :
          0 <= bitfield[i].bitIndex /\ bitfield[i].bitIndex <= NumBits - 1
    /\ \A i \in 1..Len(bitfield) :
          categorySetAsBitfield(bitfield, {bitfield[i].name}) \subseteq 0..(NumBits - 1)

\* C21 (as claimed): no two rows of the categories table share a bit index, no two active
\* rows share a name, and encoding the name of an active definition selects exactly the
\* bit of that definition.
C21_CategoryBijection ==
    /\ \A r1, r2 \in catTable : r1.bitIndex = r2.bitIndex => r1 = r2
    /\ \A r1, r2 \in catTable : (r1.active /\ r2.active /\ r1.name = r2.name) => r1 = r2
    /\ \A i \in 1..Len(bitfield) :
          categorySetAsBitfield(bitfield, {bitfield[i].name}) = {bitfield[i].bitIndex}

\* the categories of the rules of the observed getCategorizer that had no definition
MissingRules ==
    { last.rules[k] : k \in { j \in 1..Len(last.rules) :
                                \A r \in last.preCat : r.name /= last.rules[j] } }

\* the bit indexes 0..62 no definition used before the observed call
FreeBitIndexes == { b \in 0..(NumBits - 1) : \A r \in last.preCat : r.bitIndex /= b }

\* C35: when getCategorizer finds categories of rules without a definition and capacity
\* remains, it inserts for each an active definition at a bit index no existing definition
\* (active or inactive) uses, leaves the existing definitions unchanged and completes
\* without a database error, whatever the state of the categories table is.
C35_CategoryFromRules ==
    (last.op = "getCategorizer" /\ MissingRules /= {}
         /\ Cardinality(FreeBitIndexes) >= Cardinality(MissingRules)) =>
        /\ last.st = "done"
        /\ last.preCat \subseteq catTable
        /\ \A r \in catTable \ last.preCat :
              r.active /\ r.bitIndex \in FreeBitIndexes /\ r.name \in MissingRules
        /\ \A n \in MissingRules : \E r \in catTable \ last.preCat : r.name = n

-----------------------------------------------------------------------------
\* The statements built from a PatchFilter, their bindings and their execution

\* Favorite::YES as stored in column favorite (" AND favorite == 1")
FavoriteYES == "YES"

\* patch.getType() of the patches of the model's adapters, stored in column type by putPatch
TypeOfRow(row) == 0

\* synthVariable(no): boost::format(":S%02d")
synthVariable(no) == IF no < 10 THEN ":S0" \o ToString(no) ELSE ":S" \o ToString(no)

\* the loop over filter.synths in buildWhereClause, for the first n entries of the map
RECURSIVE SynthClauses(_)
SynthClauses(n) ==
    IF n = 0 THEN <<>>
    ELSE SynthClauses(n - 1) \o (IF n - 1 /= 0 THEN <<" OR ">> ELSE <<>>)
             \o <<"synth = ", synthVariable(n - 1)>>

\* buildWhereClause(filter, needsCollate): the text of the WHERE clause as the sequence of its
\* pieces; a named parameter is a piece of its own
buildWhereClause(filter, needsCollate) ==
    <<" WHERE 1 == 1 ">>
    \o (IF filter.synths /= {}
        THEN <<" AND ( ">> \o SynthClauses(Cardinality(filter.synths)) \o <<" ) ">>
        ELSE <<>>)
    \o (IF filter.importID /= "" THEN <<" AND sourceID = ", ":SID">> ELSE <<>>)
    \o (IF filter.name /= ""
        THEN <<" AND name LIKE ", ":NAM">>
             \o (IF needsCollate THEN <<" COLLATE NOCASE">> ELSE <<>>)
        ELSE <<>>)
    \o (IF filter.onlyFaves THEN <<" AND favorite == 1">> ELSE <<>>)
    \o (IF filter.onlySpecifcType THEN <<" AND type == ", ":TYP">> ELSE <<>>)
    \o (IF ~filter.showHidden THEN <<" AND (hidden is null or hidden != 1)">> ELSE <<>>)
    \o (IF filter.onlyUntagged THEN <<" AND categories == 0">>
        ELSE IF filter.categories /= {} THEN <<" AND (categories & ", ":CAT", " != 0)">>
        ELSE <<>>)

\* the keys of the map filter.synths in the order the map iterates over them
SynthKeys(filter) == SortedBy(filter.synths, [s \in filter.synths |-> StrRank(s)])

\* the loop over filter.synths in bindWhereClause, from entry i on: synth.second.lock() is
\* null for an expired reference and getName() is called on it
RECURSIVE BindSynths(_, _, _)
BindSynths(filter, keys, i) ==
    IF i > Len(keys) THEN [st |-> "ok", binds |-> <<>>]
    ELSE IF keys[i] \in filter.expired THEN [st |-> "crash", binds |-> <<>>]
    ELSE CHOOSE r \in
           { [st |-> rest.st,
              binds |-> <<[name |-> synthVariable(i - 1), value |-> keys[i]]>> \o rest.binds] :
                rest \in { BindSynths(filter, keys, i + 1) } } : TRUE

\* bindWhereClause, lines 367-369
BindCategories(bf, filter) ==
    IF ~filter.onlyUntagged /\ filter.categories /= {}
    THEN <<[name |-> ":CAT", value |-> categorySetAsBitfield(bf, filter.categories)]>>
    ELSE <<>>

\* bindWhereClause(query, filter): the bindings made, in order; st = "crash" when the loop
\* over the synths dereferences a null pointer (the bindings made before it are kept)
bindWhereClause(bf, filter) ==
    CHOOSE r \in
      { IF s.st = "crash" THEN s
        ELSE [st |-> "ok",
              binds |-> s.binds
                \o (IF filter.importID /= ""
                    THEN <<[name |-> ":SID", value |-> filter.importID]>> ELSE <<>>)
                \o (IF filter.name /= ""
                    THEN <<[name |-> ":NAM", value |-> "%" \o filter.name \o "%"]>> ELSE <<>>)
                \o (IF filter.onlySpecifcType
                    THEN <<[name |-> ":TYP", value |-> filter.typeID]>> ELSE <<>>)
                \o BindCategories(bf, filter)] :
          s \in { BindSynths(filter, SynthKeys(filter), 1) } } : TRUE

\* the statement of getPatchesCount
CountStatement(filter) == <<"SELECT count(*) FROM patches">> \o buildWhereClause(filter, FALSE)

\* the statement of deletePatches(filter)
DeleteStatement(filter) == <<"DELETE FROM patches ">> \o buildWhereClause(filter, FALSE)

\* the statement of getPatches(filter, result, needsReindexing, skip, limit)
SelectStatement(filter, limit) ==
    <<"SELECT * FROM patches ">> \o buildWhereClause(filter, TRUE)
    \o <<" ORDER BY sourceID, midiBankNo, midiProgramNo ">>
    \o (IF limit /= -1 THEN <<" LIMIT ", ":LIM", " ", " OFFSET ", ":OFS">> ELSE <<>>)

\* the bindings of getPatches: bindWhereClause, then :LIM and :OFS
SelectBindings(bf, filter, skip, limit) ==
    CHOOSE r \in
      { IF b.st = "crash" THEN b
        ELSE [b EXCEPT !.binds = @ \o (IF limit /= -1
                                       THEN <<[name |-> ":LIM", value |-> limit],
                                              [name |-> ":OFS", value |-> skip]>>
                                       ELSE <<>>)] :
          b \in { bindWhereClause(bf, filter) } } : TRUE

\* what the SQL parser takes for a named parameter: a piece that starts with a colon
MaxSynthVariable == 99
NamedParameters ==
    {":SID", ":NAM", ":TYP", ":CAT", ":LIM", ":OFS"}
    \cup { synthVariable(no) : no \in 0..MaxSynthVariable }

\* the named parameters of a statement and the names a sequence of bindings binds
ParametersOf(stmt) == Range(stmt) \cap NamedParameters
BoundNames(binds) == { binds[i].name : i \in 1..Len(binds) }

\* the value bound to a name
BoundValue(binds, name) == binds[Min({ i \in 1..Len(binds) : binds[i].name = name })].value

\* "name LIKE '%pattern%'": no name of the model is part of another one
Like(name, pattern) == pattern = "%" \o name \o "%"

\* the WHERE clause of a statement with its bindings, evaluated for a row of the patches table
RowSatisfies(stmt, binds, row) ==
    /\ "synth = " \in Range(stmt) =>
          \E i \in 1..Len(binds) :
              /\ binds[i].name \in ParametersOf(stmt) \ {":SID", ":NAM", ":TYP", ":CAT", ":LIM", ":OFS"}
              /\ binds[i].value = row.synth
    /\ " AND sourceID = " \in Range(stmt) => row.sourceID = BoundValue(binds, ":SID")
    /\ " AND name LIKE " \in Range(stmt) => Like(row.name, BoundValue(binds, ":NAM"))
    /\ " AND favorite == 1" \in Range(stmt) => row.fav = FavoriteYES
    /\ " AND type == " \in Range(stmt) => TypeOfRow(row) = BoundValue(binds, ":TYP")
    /\ " AND (hidden is null or hidden != 1)" \in Range(stmt) => ~row.hidden
    /\ " AND categories == 0" \in Range(stmt) => row.cats = {}
    /\ " AND (categories & " \in Range(stmt) => row.cats \cap BoundValue(binds, ":CAT") /= {}

\* the positions of the rows a statement selects
SelectedRows(tbl, stmt, binds) == { i \in 1..Len(tbl) : RowSatisfies(stmt, binds, tbl[i]) }

\* a prepared statement is bound and executed: the positions of the rows it selects; after a
\* crash in the bind step nothing is executed
ExecuteWhere(tbl, stmt, b) ==
    [st |-> b.st, stmt |-> stmt, binds |-> b.binds,
     sel |-> IF b.st = "crash" THEN {} ELSE SelectedRows(tbl, stmt, b.binds)]

\* getPatchesCount(filter), lines 372-384
ExecuteCount(tbl, bf, filter) ==
    CHOOSE r \in { q @@ [ret |-> Cardinality(q.sel)] :
                     q \in { ExecuteWhere(tbl, CountStatement(filter),
                                          bindWhereClause(bf, filter)) } } : TRUE

\* deletePatches(filter), lines 866-881: t is the table after the DELETE
ExecuteDelete(tbl, bf, filter) ==
    CHOOSE r \in { q @@ [ret |-> Cardinality(q.sel),
                         t |-> [k \in 1..(Len(tbl) - Cardinality(q.sel)) |->
                                  tbl[SortedBy((1..Len(tbl)) \ q.sel,
                                               [i \in (1..Len(tbl)) \ q.sel |-> i])[k]]]] :
                     q \in { ExecuteWhere(tbl, DeleteStatement(filter),
                                          bindWhereClause(bf, filter)) } } : TRUE

\* LIMIT :LIM OFFSET :OFS on the ordered rows
LimitOffset(q, skip, limit) ==
    IF limit = -1 THEN q ELSE SubSeq(q, skip + 1, Min({skip + limit, Len(q)}))

\* getPatches(filter, result, needsReindexing, skip, limit), lines 551-588: rows is the
\* result set in query order, skipped the rows whose synth is not a key of filter.synths (one
\* "Program error" message each), out the loaded patches; loading a row with the null synth
\* of an expired reference dereferences it
ExecuteSelect(tbl, bf, filter, skip, limit) ==
    CHOOSE r \in
      { LET rows == LimitOffset(SortedBy(q.sel, [i \in q.sel |-> QueryKey(tbl, i)]), skip, limit)
            known == SelectSeq(rows, LAMBDA i : tbl[i].synth \in filter.synths)
        IN  q @@ [rows |-> rows,
                  skipped |-> SelectSeq(rows, LAMBDA i : tbl[i].synth \notin filter.synths),
                  load |-> IF \E k \in 1..Len(known) : tbl[known[k]].synth \in filter.expired
                           THEN "crash" ELSE q.st,
                  out |-> [k \in 1..Len(known) |-> loadPatchFromQueryRow(bf, tbl[known[k]])]] :
          q \in { ExecuteWhere(tbl, SelectStatement(filter, limit),
                               SelectBindings(bf, filter, skip, limit)) } } : TRUE

\* "SELECT * from patch_in_list where id=:ID order by order_num": the (synth, md5) pairs
ListEntries(pil, id) == SelectSeq(pil, LAMBDA e : e.id = id)

\* getPatchList(info, synths), lines 1028-1045: an entry whose synth is a key of the map is
\* loaded with getSinglePatch(synths[..].lock(), ..), which calls getName() on the synth
getPatchList(tbl, bf, pil, id, synths, expired) ==
    LET known == SelectSeq(ListEntries(pil, id), LAMBDA e : e.synth \in synths)
        found == SelectSeq(known, LAMBDA e : RowsAt(tbl, e.synth, e.md5) /= {})
    IN  [st |-> IF \E k \in 1..Len(known) : known[k].synth \in expired THEN "crash" ELSE "ok",
         out |-> [k \in 1..Len(found) |-> getSinglePatch(tbl, bf, found[k].synth, found[k].md5)]]

\* addPatchToList(info, patch), lines 1047-1060 (order_num is always 0)
addPatchToList(pil, algo, id, h) ==
    Append(pil, [id |-> id, synth |-> h.synth, md5 |-> md5(algo, h)])

\* PatchDataBaseImpl::getPatchesCount(filter)
DoCountQuery(filter) ==
    /\ nOps < MaxOps
    /\ \E r \in { ExecuteCount(patches, bitfield, filter) } :
        /\ Observe([NoOp EXCEPT !.op = "count", !.filter = filter, !.st = r.st, !.ret = r.ret,
                                !.stmt = r.stmt, !.binds = r.binds, !.sel = r.sel,
                                !.pre = patches])
        /\ UNCHANGED <<catTable, bitfield, categoryDefinitions_, patches, imports, fpAlgo,
                       db, patchInList,
                       threadVars>>

\* PatchDataBaseImpl::getPatches(filter, result, needsReindexing, skip, limit)
DoSelectQuery(filter, skip, limit) ==
    /\ nOps < MaxOps
    /\ \E r \in { ExecuteSelect(patches, bitfield, filter, skip, limit) } :
        /\ Observe([NoOp EXCEPT !.op = "select", !.filter = filter, !.skip = skip,
                                !.limit = limit, !.st = r.load,
                                !.out = IF r.load = "crash" THEN <<>> ELSE r.out,
                                !.skipped = r.skipped,
                                !.stmt = r.stmt, !.binds = r.binds, !.sel = Range(r.rows),
                                !.pre = patches])
        /\ UNCHANGED <<catTable, bitfield, categoryDefinitions_, patches, imports, fpAlgo,
                       db, patchInList,
                       threadVars>>

\* PatchDataBaseImpl::deletePatches(filter)
DoDeleteQuery(filter) ==
    /\ nOps < MaxOps
    /\ \E r \in { ExecuteDelete(patches, bitfield, filter) } :
        /\ patches' = IF r.st = "crash" THEN patches ELSE r.t
        /\ Observe([NoOp EXCEPT !.op = "delete", !.filter = filter, !.st = r.st,
                                !.ret = r.ret,
                                !.stmt = r.stmt, !.binds = r.binds, !.sel = r.sel,
                                !.pre = patches])
        /\ UNCHANGED <<catTable, bitfield, categoryDefinitions_, imports, fpAlgo, db,
                       patchInList, threadVars>>

\* PatchDataBaseImpl::getPatchList(info, synths)
DoGetPatchList(id, synths, expired) ==
    /\ nOps < MaxOps
    /\ \E r \in { getPatchList(patches, bitfield, patchInList, id, synths, expired) } :
        /\ Observe([NoOp EXCEPT !.op = "getPatchList",
                                !.filter = [NoFilter EXCEPT !.synths = synths,
                                                            !.expired = expired, !.listID = id],
                                !.st = r.st, !.out = IF r.st = "crash" THEN <<>> ELSE r.out,
                                !.pre = patches])
        /\ UNCHANGED <<catTable, bitfield, categoryDefinitions_, patches, imports, fpAlgo,
                       db, patchInList,
                       threadVars>>

\* PatchDataBaseImpl::addPatchToList(info, patch): one of the steps that fill the lists
\* before the observed operation
MaxList == 1

DoAddPatchToList(id, h) ==
    /\ nOps < MaxOps
    /\ Len(patchInList) < MaxList
    /\ patchInList' = addPatchToList(patchInList, fpAlgo, id, h)
    /\ UNCHANGED <<catTable, bitfield, categoryDefinitions_, patches, imports, fpAlgo, db,
                   threadVars, nOps, last>>

\* the inputs of the query specification: patches that differ in every filtered column, maps
\* of synths with live and expired references, and filters that set each field
HoldersQuery ==
    { Holder("A", "d1", "N1", {}, {}, "DONTKNOW", FALSE, "s1", ""),
      Holder("A", "d2", "Init", {"Pad"}, {}, FavoriteYES, TRUE, "s1", ""),
      Holder("B", "d1", "N1", {"Pad"}, {}, "DONTKNOW", FALSE, "s2", "") }

SynthMaps ==
    { [keys |-> K, expired |-> E] : K \in SUBSET Synths, E \in SUBSET {"A"} }

FilterOptions ==
    { NoFilter,
      [NoFilter EXCEPT !.importID = "u1"],
      [NoFilter EXCEPT !.name = "N1"],
      [NoFilter EXCEPT !.onlyFaves = TRUE],
      [NoFilter EXCEPT !.onlySpecifcType = TRUE],
      [NoFilter EXCEPT !.onlySpecifcType = TRUE, !.typeID = 1],
      [NoFilter EXCEPT !.showHidden = FALSE],
      [NoFilter EXCEPT !.importID = "u1", !.name = "N1", !.onlyFaves = TRUE,
                       !.onlySpecifcType = TRUE, !.showHidden = FALSE] }

FiltersQuery ==
    { [o EXCEPT !.synths = s.keys, !.expired = s.expired, !.listID = l,
                !.onlyUntagged = u, !.categories = c] :
        o \in FilterOptions, s \in { m \in SynthMaps : m.expired \subseteq m.keys },
        l \in {"", "L1"}, u \in BOOLEAN, c \in {{}, {"Pad"}} }

Paging == { <<0, -1>>, <<0, 1>>, <<1, 1>> }

MergeQuery == \E batch \in SeqsUpTo(HoldersQuery, MaxBatch) : DoMerge(batch, UPDATE_ALL, NoAbort)

AddPatchToList == \E h \in HoldersQuery : DoAddPatchToList("L1", h)

CountQuery == \E f \in FiltersQuery : DoCountQuery(f)

SelectQuery == \E f \in FiltersQuery, p \in Paging : DoSelectQuery(f, p[1], p[2])

DeleteQuery == \E f \in FiltersQuery : DoDeleteQuery(f)

GetPatchList ==
    \E s \in { m \in SynthMaps : m.expired \subseteq m.keys } :
        DoGetPatchList("L1", s.keys, s.expired)

NextQuery ==
    MergeQuery \/ AddPatchToList \/ CountQuery \/ SelectQuery \/ DeleteQuery \/ GetPatchList

SpecQuery == Init /\ [][NextQuery]_vars

-----------------------------------------------------------------------------
\* Properties of the query specification SpecQuery

QueryOps == {"count", "select", "delete"}

\* the texts of the values a filter carries
FilterValues(filter) ==
    (filter.synths \cup filter.categories
     \cup {filter.importID, filter.listID, filter.name, "%" \o filter.name \o "%",
           ToString(filter.typeID)}) \ {""}

\* C22 (as claimed): for every filter and each of count, get_many and delete by filter, the
\* named parameters of the generated statement are exactly the names the bind step binds,
\* and no value of the filter occurs in the text of the statement.
C22_FilterSafety ==
    last.op \in QueryOps =>
        /\ ParametersOf(last.stmt) = BoundNames(last.binds)
        /\ Range(last.stmt) \cap FilterValues(last.filter) = {}

\* C23 (as claimed): a count, get_many or delete by filter whose filter names a list selects
\* only rows that are members of that list.
C23_ListFilter ==
    (last.op \in QueryOps /\ last.st = "ok" /\ last.filter.listID /= "") =>
        \A i \in last.sel :
            \E k \in 1..Len(patchInList) :
                patchInList[k] = [id |-> last.filter.listID, synth |-> last.pre[i].synth,
                                  md5 |-> last.pre[i].md5]

\* C24 (as claimed): no query dereferences a missing synth, whether the map of the filter
\* holds an expired reference or a stored row belongs to a synth the map does not hold; the
\* rows of such synths are left out of the result.
C24_UnregisteredSynths ==
    last.op \in QueryOps \cup {"getPatchList"} =>
        /\ last.st /= "crash"
        /\ \A k \in 1..Len(last.out) :
              last.out[k].synth \in last.filter.synths \ last.filter.expired

-----------------------------------------------------------------------------
\* The asynchronous read: getPatchesAsync, the jobs of the thread pool and the message thread

MaxCalls == 2

\* PatchDatabase::getPatches(filter, skip, limit), lines 1189-1203: the result vector of the
\* implementation; the weak references of the synths in "gone" are expired when it runs
getPatchesPage(tbl, bf, filter, gone, skip, limit) ==
    CHOOSE r \in
      { [st |-> q.load, result |-> IF q.load = "crash" THEN <<>> ELSE q.out] :
          q \in { ExecuteSelect(tbl, bf, [filter EXCEPT !.expired = filter.synths \cap gone],
                                skip, limit) } } : TRUE

\* PatchDatabase::getPatchesAsync(filter, finished, skip, limit) on the caller's thread: the
\* job, which holds copies of filter, finished, skip and limit, is added to pool_
DoGetPatchesAsync(filter, skip, limit) ==
    /\ ~crashed
    /\ Len(issued) < MaxCalls
    /\ issued' = Append(issued, [filter |-> filter, skip |-> skip, limit |-> limit])
    /\ pool' = Append(pool, Len(issued) + 1)
    /\ UNCHANGED <<catTable, bitfield, categoryDefinitions_, patches, imports, fpAlgo, db,
                   patchInList,
                   thread, categoryLock,
                   running, messageQueue, callbacks, released, crashed, nOps, last>>

\* a worker thread of the pool takes the oldest waiting job and runs the first statement of
\* its body: auto result = getPatches(filter, skip, limit)
RunJob ==
    /\ ~crashed
    /\ pool /= <<>>
    /\ \E r \in { getPatchesPage(patches, bitfield, issued[Head(pool)].filter, released,
                                 issued[Head(pool)].skip, issued[Head(pool)].limit) } :
        /\ pool' = Tail(pool)
        /\ crashed' = (r.st = "crash")
        /\ running' = IF r.st = "crash" THEN running
                      ELSE running \cup {[id |-> Head(pool), filter |-> issued[Head(pool)].filter,
                                          result |-> r.result, at |-> patches]}
    /\ UNCHANGED <<catTable, bitfield, categoryDefinitions_, patches, imports, fpAlgo, db,
                   patchInList,
                   thread, categoryLock,
                   issued, messageQueue, callbacks, released, nOps, last>>

\* the second statement of a job: MessageManager::callAsync posts the completion, which
\* holds copies of filter, finished and result, to the message thread
PostCompletion ==
    /\ ~crashed
    /\ \E j \in running :
        /\ running' = running \ {j}
        /\ messageQueue' = Append(messageQueue, j)
    /\ UNCHANGED <<catTable, bitfield, categoryDefinitions_, patches, imports, fpAlgo, db,
                   patchInList,
                   thread, categoryLock,
                   issued, pool, callbacks, released, crashed, nOps, last>>

\* the message thread handles the oldest posted completion: finished(filter, result)
DispatchMessage ==
    /\ ~crashed
    /\ messageQueue /= <<>>
    /\ messageQueue' = Tail(messageQueue)
    /\ callbacks' = Append(callbacks, Head(messageQueue) @@ [thread |-> "message"])
    /\ UNCHANGED <<catTable, bitfield, categoryDefinitions_, patches, imports, fpAlgo, db,
                   patchInList,
                   thread, categoryLock,
                   issued, pool, running, released, crashed, nOps, last>>

\* the owner of a synth drops its last shared_ptr: every weak reference to it expires
ReleaseSynth(s) ==
    /\ ~crashed
    /\ s \notin released
    /\ released' = released \cup {s}
    /\ UNCHANGED <<catTable, bitfield, categoryDefinitions_, patches, imports, fpAlgo, db,
                   patchInList,
                   thread, categoryLock,
                   issued, pool, running, messageQueue, callbacks, crashed, nOps, last>>

HoldersAsync ==
    { Holder("A", "d1", "N1", {}, {}, "DONTKNOW", FALSE, "s1", ""),
      Holder("B", "d1", "N1", {}, {}, "DONTKNOW", FALSE, "s1", "") }

FiltersAsync == { [NoFilter EXCEPT !.synths = S] : S \in {{"A"}, {"B"}, {"A", "B"}} }

GetPatchesAsync == \E f \in FiltersAsync, p \in Paging : DoGetPatchesAsync(f, p[1], p[2])

MergeAsync == ~crashed /\ \E h \in HoldersAsync : DoMerge(<<h>>, UPDATE_ALL, NoAbort)

Release == ReleaseSynth("A")

NextAsync ==
    GetPatchesAsync \/ RunJob \/ PostCompletion \/ DispatchMessage \/ MergeAsync \/ Release

SpecAsync == Init /\ [][NextAsync]_vars

\* the worker threads keep taking jobs while there are any, a running job goes on to its
\* callAsync, and the message loop keeps handling the posted messages
SpecAsyncFair ==
    SpecAsync /\ WF_vars(RunJob) /\ WF_vars(PostCompletion) /\ WF_vars(DispatchMessage)

\* the invocations of finished that belong to call c
CallbacksOf(c) == { k \in 1..Len(callbacks) : callbacks[k].id = c }

\* call c got its one callback, on the message thread, with the filter of the call and the
\* result of getPatches for it
Answered(c) ==
    /\ Cardinality(CallbacksOf(c)) = 1
    /\ \A k \in CallbacksOf(c) :
          /\ callbacks[k].thread = "message"
          /\ callbacks[k].filter = issued[c].filter
          /\ callbacks[k].result =
                getPatchesPage(callbacks[k].at, bitfield, issued[c].filter, {},
                               issued[c].skip, issued[c].limit).result

\* C25 (as claimed): every call of getPatchesAsync eventually leads to exactly one invocation
\* of its callback on the message thread, with the filter of the call and the result of
\* getPatches for that filter, in every interleaving of concurrent calls.
C25_AsyncCompletion ==
    /\ [](\A c \in 1..MaxCalls : Cardinality(CallbacksOf(c)) <= 1)
    /\ \A c \in 1..MaxCalls : (Len(issued) >= c) ~> Answered(c)

-----------------------------------------------------------------------------
\* The accesses to the category state (members bitfield and categoryDefinitions_) and the
\* critical section categoryLock_

Threads == {"message", "worker"}

\* one step of a function: k is "lock" or "unlock" (a ScopedLock on categoryLock_ is
\* constructed or destroyed), "read" or "write" (of member v); line is the source line
Acc(k, v, line) == [k |-> k, v |-> v, line |-> line]

getCategoriesSteps ==
    << Acc("lock", "categoryLock_", 387), Acc("read", "categoryDefinitions_", 399),
       Acc("write", "bitfield", 420), Acc("unlock", "categoryLock_", 422) >>

updateCategoriesSteps ==
    getCategoriesSteps \o << Acc("write", "categoryDefinitions_", 470) >>

loadPatchFromQueryRowSteps ==
    << Acc("lock", "categoryLock_", 478) >> \o getCategoriesSteps
    \o << Acc("write", "categoryDefinitions_", 492), Acc("read", "bitfield", 518),
          Acc("read", "bitfield", 520), Acc("unlock", "categoryLock_", 534) >>

getCategorizerSteps ==
    << Acc("lock", "categoryLock_", 957) >> \o getCategoriesSteps
    \o << Acc("write", "categoryDefinitions_", 959), Acc("read", "bitfield", 960),
          Acc("read", "categoryDefinitions_", 965), Acc("read", "categoryDefinitions_", 971) >>
    \o getCategoriesSteps
    \o << Acc("write", "categoryDefinitions_", 997), Acc("read", "categoryDefinitions_", 1001),
          Acc("unlock", "categoryLock_", 1016) >>

putPatchSteps == << Acc("read", "bitfield", 283), Acc("read", "bitfield", 284) >>

updatePatchSteps == << Acc("read", "bitfield", 680), Acc("read", "bitfield", 681) >>

bindWhereClauseSteps == << Acc("read", "bitfield", 368) >>

\* the steps of an operation: a query with a category filter that finds one row, a merge of
\* one new patch (putPatch) and of one known patch with UPDATE_CATEGORIES (bulkGetPatches
\* loads the stored row, then updatePatch)
StepsOf(op) ==
    CASE op = "getCategories" -> getCategoriesSteps
      [] op = "updateCategories" -> updateCategoriesSteps
      [] op = "getCategorizer" -> getCategorizerSteps
      [] op = "getPatchesCount" -> bindWhereClauseSteps
      [] op = "getPatches" -> bindWhereClauseSteps \o loadPatchFromQueryRowSteps
      [] op = "mergeNew" -> putPatchSteps
      [] op = "mergeKnown" -> loadPatchFromQueryRowSteps \o updatePatchSteps
      [] OTHER -> <<>>

\* the operations the owner thread calls, and the one a job of the pool runs
OperationsOf(t) ==
    IF t = "worker" THEN {"getPatches"}
    ELSE {"getCategories", "updateCategories", "getCategorizer", "getPatchesCount",
          "getPatches", "mergeNew", "mergeKnown"}

\* the step a thread is executing (nothing before the first and after the last step)
At(t) ==
    IF thread[t].pc \in 1..Len(StepsOf(thread[t].op))
    THEN StepsOf(thread[t].op)[thread[t].pc] ELSE Acc("none", "", 0)

\* thread t, which runs no operation, calls op
StartOperation(t, op) ==
    /\ thread[t].pc > Len(StepsOf(thread[t].op))
    /\ thread' = [thread EXCEPT ![t] = [op |-> op, pc |-> 0]]
    /\ UNCHANGED <<catTable, bitfield, categoryDefinitions_, patches, imports, fpAlgo, db,
                   patchInList,
                   issued, pool, running, messageQueue, callbacks, released, crashed,
                   categoryLock, nOps, last>>

\* thread t goes on to its next step; the critical section is re-entrant, and a thread that
\* wants to enter it waits while another thread is inside
Step(t) ==
    /\ thread[t].pc <= Len(StepsOf(thread[t].op))
    /\ thread' = [thread EXCEPT ![t].pc = @ + 1]
    /\ \E s \in { IF thread[t].pc < Len(StepsOf(thread[t].op))
                  THEN StepsOf(thread[t].op)[thread[t].pc + 1] ELSE Acc("none", "", 0) } :
        /\ s.k = "lock" => categoryLock.owner \in {"none", t}
        /\ categoryLock' =
              IF s.k = "lock" THEN [owner |-> t, depth |-> categoryLock.depth + 1]
              ELSE IF s.k = "unlock"
              THEN [owner |-> IF categoryLock.depth = 1 THEN "none" ELSE t,
                    depth |-> categoryLock.depth - 1]
              ELSE categoryLock
    /\ UNCHANGED <<catTable, bitfield, categoryDefinitions_, patches, imports, fpAlgo, db,
                   patchInList,
                   issued, pool, running, messageQueue, callbacks, released, crashed,
                   nOps, last>>

Start == \E t \in Threads : \E op \in OperationsOf(t) : StartOperation(t, op)

Proceed == \E t \in Threads : Step(t)

NextLock == Start \/ Proceed

SpecLock == Init /\ [][NextLock]_vars

\* C26 (as claimed): every read and every replacement of the bitfield and of the cached
\* category definitions happens while the executing thread holds the category lock, so the
\* worker thread never replaces the bitfield while the other thread is reading it.
C26_CategoryLock ==
    /\ \A t \in Threads : At(t).k \in {"read", "write"} => categoryLock.owner = t
    /\ ~(/\ At("worker") = Acc("write", "bitfield", 420)
         /\ At("message").k = "read" /\ At("message").v = "bitfield")

-----------------------------------------------------------------------------
\* The cached category definitions: updateCategories and getCategorizer with failing writes

\* PatchDataBaseImpl::updateCategories(newdefs) as a whole. failAt = 0: no statement fails,
\* the transaction is committed and getCategories refreshes the members. failAt = i: the
\* UPDATE or INSERT of definition i (the commit for i = Len(newdefs) + 1) throws an
\* SQLite::Exception; the transaction is destroyed, the exception is logged, and the members
\* stay as they are.
updateCategoriesCall(tbl, defs, bf, newdefs, failAt) ==
    IF failAt = 0
    THEN CHOOSE r \in { [t |-> t, defs |-> getCategories(t), bitfield |-> ActiveDefinitions(t),
                         st |-> "done"] :
                          t \in { updateCategories(tbl, newdefs, 1) } } : TRUE
    ELSE [t |-> Rollback(tbl, updateCategories(tbl, SubSeq(newdefs, 1, failAt - 1), 1)),
          defs |-> defs, bitfield |-> bf, st |-> "failed"]

\* PatchDatabase::updateCategories(newdefs), observed, with the statement that fails
DoUpdateCategoriesCall(newdefs, failAt) ==
    /\ nOps < MaxOps
    /\ \E u \in { updateCategoriesCall(catTable, categoryDefinitions_, bitfield, newdefs,
                                       failAt) } :
        /\ catTable' = u.t
        /\ bitfield' = u.bitfield
        /\ categoryDefinitions_' = u.defs
        /\ Observe([NoOp EXCEPT !.op = "updateCategories", !.defs = newdefs, !.st = u.st,
                                !.failStep = failAt, !.preCat = catTable, !.preBf = bitfield])
        /\ UNCHANGED <<patches, imports, fpAlgo, db, patchInList, threadVars>>

\* the vectors handed to updateCategories: a new definition, active or not, a default
\* category switched off, two new definitions, and a definition at bit index 63
DefinitionsCache ==
    { <<[id |-> 3, name |-> "New", active |-> a]>> : a \in BOOLEAN }
    \cup { <<[id |-> 0, name |-> "Lead", active |-> FALSE]>>,
           <<[id |-> 3, name |-> "New", active |-> FALSE],
             [id |-> 4, name |-> "Other", active |-> TRUE]>>,
           <<[id |-> NumBits, name |-> "High", active |-> TRUE]>> }

UpdateCategoriesCache ==
    \E newdefs \in DefinitionsCache : \E failAt \in 0..(Len(newdefs) + 1) :
        DoUpdateCategoriesCall(newdefs, failAt)

NextCache == UpdateCategoriesCache \/ GetCategorizer

SpecCache == Init /\ [][NextCache]_vars

-----------------------------------------------------------------------------
\* The frame specification SpecFrame: merges of holders that differ from the stored row in
\* single columns, with every update mask

FrameBase == Holder("A", "d1", "N1", {}, {}, "DONTKNOW", FALSE, "s1", "")

HoldersFrame ==
    { FrameBase,
      [FrameBase EXCEPT !.name = "N2"],
      [FrameBase EXCEPT !.name = "Init"],
      [FrameBase EXCEPT !.cats = {"Pad"}, !.ud = {"Pad"}],
      [FrameBase EXCEPT !.fav = FavoriteYES],
      [FrameBase EXCEPT !.hidden = TRUE],
      [FrameBase EXCEPT !.data = "d2"],
      [FrameBase EXCEPT !.data = "d2", !.name = "N2", !.cats = {"Pad"}, !.fav = FavoriteYES,
                        !.hidden = TRUE],
      [FrameBase EXCEPT !.synth = "B", !.name = "N2"] }

BatchesFrame ==
    { <<h>> : h \in HoldersFrame }
    \cup { <<g, h>> : g, h \in { FrameBase, [FrameBase EXCEPT !.name = "Init"],
                                 [FrameBase EXCEPT !.synth = "B", !.name = "N2"] } }

MergeFrame == \E batch \in BatchesFrame, m \in SUBSET UPDATE_ALL : DoMerge(batch, m, NoAbort)

NextFrame == MergeFrame \/ ChangeFingerprint

SpecFrame == Init /\ [][NextFrame]_vars

\* the columns of a patches row and the columns an update mask selects
PatchColumns ==
    {"synth", "md5", "name", "data", "fav", "hidden", "sourceID", "src", "cats", "cud"}

ColumnsOf(mask) ==
    (IF UpdateNAME \in mask THEN {"name"} ELSE {})
    \cup (IF UpdateCATEGORIES \in mask THEN {"cats", "cud"} ELSE {})
    \cup (IF UpdateHIDDEN \in mask THEN {"hidden"} ELSE {})
    \cup (IF UpdateDATA \in mask THEN {"data"} ELSE {})
    \cup (IF UpdateFAVORITE \in mask THEN {"fav"} ELSE {})

\* the mask that is in effect for an incoming holder
EffectiveMask(mask, incoming) ==
    IF hasDefaultName(incoming.synth, incoming.name) THEN mask \ {UpdateNAME} ELSE mask

ChangedColumns(rowBefore, rowAfter) == { c \in PatchColumns : rowBefore[c] /= rowAfter[c] }

\* the steps of the observed merge that handled a holder the probe had found
HitSteps == { k \in 1..Len(last.steps) : last.steps[k].path /= "new" }

-----------------------------------------------------------------------------
\* The backup pruning of the constructor (manageBackupDiskspace) and its specification
\* SpecBackup. A backup file is a record of its modification time and its size; the
\* directory listing comes in any order.

MaxFiles == 5

BackupSizeLimit == 500000000

BackupsAlwaysKept == 2

BackupSizes == {0, 1, 250000000}

\* the listings of findChildFiles: n files of distinct modification times, in the n
\* rotations of the order by time
Listings ==
    UNION { { [i \in 1..n |-> [mtime |-> ((i + k) % n) + 1, size |-> z[((i + k) % n) + 1]]] :
                k \in 0..(n - 1), z \in [1..n -> BackupSizes] } : n \in 1..MaxFiles }
    \cup { <<>> }

RECURSIVE SortNewestFirst(_)
\* backupsFiles.sort(FileDateComparatorNewestFirst): the latest modification time first
SortNewestFirst(files) ==
    IF files = <<>> THEN <<>>
    ELSE \* the index of the newest file
         LET i == CHOOSE i \in 1..Len(files) :
                      \A j \in 1..Len(files) : files[i].mtime >= files[j].mtime
         IN  <<files[i]>>
             \o SortNewestFirst(SubSeq(files, 1, i - 1) \o SubSeq(files, i + 1, Len(files)))

\* mutant: a test that looks at the size only
MustDelete_SizeOnly(backupSize, numKept) == backupSize > BackupSizeLimit

\* "if (backupSize > 500000000 && numKept > 2)"
MustDelete(backupSize, numKept) == backupSize > BackupSizeLimit /\ numKept > BackupsAlwaysKept

RECURSIVE PruneFrom(_, _, _)
\* the loop over the sorted files; deleteFile fails for the files of the set undeletable,
\* which is logged and nothing else
PruneFrom(files, undeletable, acc) ==
    IF files = <<>> THEN acc
    ELSE LET file == Head(files)
         IN  PruneFrom(Tail(files), undeletable,
                 IF MustDelete(acc.backupSize + file.size, acc.numKept)
                 THEN IF file.mtime \in undeletable
                      THEN [acc EXCEPT !.backupSize = @ + file.size,
                                       !.failed = Append(@, file)]
                      ELSE [acc EXCEPT !.backupSize = @ + file.size,
                                       !.removed = Append(@, file)]
                 ELSE [acc EXCEPT !.backupSize = @ + file.size,
                                  !.numKept = @ + 1,
                                  !.keptBackupSize = @ + file.size,
                                  !.kept = Append(@, file)])

manageBackupDiskspace(listing, undeletable) ==
    PruneFrom(SortNewestFirst(listing), undeletable,
              [backupSize |-> 0, keptBackupSize |-> 0, numKept |-> 0,
               kept |-> <<>>, removed |-> <<>>, failed |-> <<>>])

\* the constructor prunes the backups that lie beside the database file
DoManageBackupDiskspace(listing, undeletable) ==
    /\ nOps < MaxOps
    /\ \E r \in { manageBackupDiskspace(listing, undeletable) } :
          /\ last' = [NoOp EXCEPT !.op = "manageBackupDiskspace", !.listing = listing,
                                  !.kept = r.kept, !.removed = r.removed,
                                  !.failed = r.failed, !.ret = r.numKept]
          /\ nOps' = MaxOps
    /\ UNCHANGED <<catTable, bitfield, categoryDefinitions_, patches, imports, fpAlgo, db,
                   patchInList, threadVars>>

ManageBackupDiskspace ==
    /\ nOps < MaxOps
    /\ \E listing \in Listings :
          \E undeletable \in SUBSET { listing[i].mtime : i \in 1..Len(listing) } :
              DoManageBackupDiskspace(listing, undeletable)

NextBackup == ManageBackupDiskspace

SpecBackup == Init /\ [][NextBackup]_vars

\* the backups of the observed call, newest first
NewestFirst == SortNewestFirst(last.listing)

RECURSIVE CumulativeSize(_, _)
\* the size of the first i files together
CumulativeSize(files, i) == IF i = 0 THEN 0 ELSE CumulativeSize(files, i - 1) + files[i].size

\* every file of the first n is among the first 3 or has a cumulative size of at most
\* 500,000,000 bytes
Keepable(files, n) == \A i \in 1..n : i <= 3 \/ CumulativeSize(files, i) <= 500000000

\* the length of the longest such prefix
PolicyLength(files) ==
    CHOOSE n \in 0..Len(files) :
        /\ Keepable(files, n)
        /\ \A k \in 0..Len(files) : Keepable(files, k) => k <= n

\* the first n files of a sequence, all of them when there are fewer
FirstFiles(files, n) == [i \in 1..(IF n < Len(files) THEN n ELSE Len(files)) |-> files[i]]

\* the files of a sequence
FilesOf(files) == { files[i] : i \in 1..Len(files) }

\* the files that are in the directory after the call
RemainingBackups == FilesOf(last.listing) \ FilesOf(last.removed)

\* C29 (as stated): pruning keeps exactly the longest prefix, newest first, in which every
\* file is among the first 3 or has a cumulative size of at most 500,000,000 bytes, and
\* deletes all remaining files; the 3 newest backups are never deleted.
C29_BackupPruning ==
    last.op = "manageBackupDiskspace" =>
        /\ RemainingBackups = FilesOf(FirstFiles(NewestFirst, PolicyLength(NewestFirst)))
        /\ FilesOf(FirstFiles(NewestFirst, 3)) \subseteq RemainingBackups

\* C29 (amended): pruning keeps exactly that prefix and asks for the deletion of every
\* remaining file; such a file is gone unless its deletion fails, and then it stays; the 3
\* newest backups are never deleted.
C29_BackupPruningTolerant ==
    last.op = "manageBackupDiskspace" =>
        /\ last.kept = FirstFiles(NewestFirst, PolicyLength(NewestFirst))
        /\ FilesOf(last.removed) \cup FilesOf(last.failed)
              = FilesOf(NewestFirst) \ FilesOf(last.kept)
        /\ FilesOf(last.removed) \cap FilesOf(last.failed) = {}
        /\ RemainingBackups = FilesOf(last.kept) \cup FilesOf(last.failed)
        /\ FilesOf(FirstFiles(NewestFirst, 3)) \subseteq RemainingBackups

\* five backups in a listing that is not sorted: the three newest are kept although they
\* exceed the limit together, of the others one is deleted and one could not be deleted
C29_Witness ==
    /\ last.op = "manageBackupDiskspace"
    /\ Len(last.listing) = 5 /\ last.listing /= NewestFirst
    /\ Len(last.kept) = 3 /\ CumulativeSize(last.kept, 3) > 500000000
    /\ Len(last.removed) = 1 /\ Len(last.failed) = 1

-----------------------------------------------------------------------------
\* The Base64 codec of JsonSerialization (dataToString, stringToData) and its specification
\* SpecCodec. A character of the encoded text is its position 0..63 in the Base64 alphabet,
\* PadChar is '=' and NulChar the terminator of a C string.

MaxData == 4

BufferSize == 2048

PadChar == 64

NulChar == -1

DataBytes == {0, 77, 255}

\* the payloads: short byte vectors, and vectors filled with one byte of three quarters of
\* the buffer size, of the buffer size and of one byte more
Payloads ==
    UNION { [1..n -> DataBytes] : n \in 0..MaxData }
    \cup { [i \in 1..n |-> b] : n \in {(BufferSize \div 4) * 3, BufferSize, BufferSize + 1},
                                b \in DataBytes }

\* the character at position k (from 1) of boost::beast::detail::base64::encode(dest, src, len)
\* for the len bytes in
EncodedChar(in, len, k) ==
    IF (k - 1) \div 4 < len \div 3
    THEN CASE (k - 1) % 4 = 0 -> in[3 * ((k - 1) \div 4) + 1] \div 4
           [] (k - 1) % 4 = 1 -> (in[3 * ((k - 1) \div 4) + 1] % 4) * 16
                                     + in[3 * ((k - 1) \div 4) + 2] \div 16
           [] (k - 1) % 4 = 2 -> in[3 * ((k - 1) \div 4) + 3] \div 64
                                     + (in[3 * ((k - 1) \div 4) + 2] % 16) * 4
           [] OTHER -> in[3 * ((k - 1) \div 4) + 3] % 64
    ELSE CASE (k - 1) % 4 = 0 -> in[3 * (len \div 3) + 1] \div 4
           [] (k - 1) % 4 = 1 -> IF len % 3 = 2
                                 THEN (in[3 * (len \div 3) + 1] % 4) * 16
                                          + in[3 * (len \div 3) + 2] \div 16
                                 ELSE (in[3 * (len \div 3) + 1] % 4) * 16
           [] (k - 1) % 4 = 2 -> IF len % 3 = 2
                                 THEN (in[3 * (len \div 3) + 2] % 16) * 4
                                 ELSE PadChar
           [] OTHER -> PadChar

\* the text base64::encode writes; its length is the value encode returns
encode(in, len) == [k \in 1..(4 * ((len + 2) \div 3)) |-> EncodedChar(in, len, k)]

\* the character in[k] of a C string: the terminator behind its last character
CharAt(string, k) == IF k <= Len(string) THEN string[k] ELSE NulChar

\* the positions at which base64::decode(dest, src, len) stops reading: a '=', a character
\* outside the alphabet, and the position behind the len characters
StopPositions(string, len) ==
    { k \in 1..(len + 1) : k = len + 1 \/ CharAt(string, k) \notin 0..63 }

\* the number of characters decode consumes
Consumed(string, len) ==
    (CHOOSE k \in StopPositions(string, len) :
        \A j \in StopPositions(string, len) : k <= j) - 1

\* byte j (from 1) of the output of decode
DecodedByte(string, j) ==
    CASE (j - 1) % 3 = 0 -> (string[4 * ((j - 1) \div 3) + 1] * 4
                               + string[4 * ((j - 1) \div 3) + 2] \div 16) % 256
      [] (j - 1) % 3 = 1 -> ((string[4 * ((j - 1) \div 3) + 2] % 16) * 16
                               + string[4 * ((j - 1) \div 3) + 3] \div 4) % 256
      [] OTHER -> ((string[4 * ((j - 1) \div 3) + 3] % 4) * 64
                               + string[4 * ((j - 1) \div 3) + 4]) % 256

\* the bytes decode writes when it has consumed n characters: three for every four
\* characters, and one less than the number of the characters that are left over
DecodedBytes(string, n) ==
    [j \in 1..(3 * (n \div 4) + (IF n % 4 = 0 THEN 0 ELSE (n % 4) - 1)) |->
        DecodedByte(string, j)]

decode(string, len) ==
    CHOOSE r \in { DecodedBytes(string, n) : n \in {Consumed(string, len)} } : TRUE

\* dataToString: encode is told to read buffer.size() bytes from data.data(), whatever the
\* size of data is, and writes into the buffer of that size. The bytes behind the end of
\* data are whatever lies there (here: beyond), the characters that do not fit are written
\* behind the end of the buffer; the call either goes on with the text encode has produced
\* or the process ends
dataToString(data, beyond, survives) ==
    IF survives
    THEN [st |-> "done",
          str |-> encode([i \in 1..BufferSize |-> IF i <= Len(data) THEN data[i] ELSE beyond],
                         BufferSize)]
    ELSE [st |-> "crashed", str |-> <<>>]

\* stringToData: decode is told to read 2048 characters into a buffer of 2048 bytes, the
\* result is cut to the number of bytes written
stringToData(string) == decode(string, BufferSize)

DoDataToString(data, beyond, survives) ==
    /\ nOps < MaxOps - 1
    /\ \E r \in { dataToString(data, beyond, survives) } :
          last' = [NoOp EXCEPT !.op = "dataToString", !.data = data, !.st = r.st,
                               !.str = r.str]
    /\ nOps' = MaxOps - 1
    /\ UNCHANGED <<catTable, bitfield, categoryDefinitions_, patches, imports, fpAlgo, db,
                   patchInList, threadVars>>

\* the text of the last dataToString is handed to stringToData
DoStringToData ==
    /\ last.op = "dataToString" /\ last.st = "done"
    /\ last' = [last EXCEPT !.op = "stringToData", !.out = stringToData(last.str)]
    /\ nOps' = MaxOps
    /\ UNCHANGED <<catTable, bitfield, categoryDefinitions_, patches, imports, fpAlgo, db,
                   patchInList, threadVars>>

DataToString ==
    /\ nOps < MaxOps - 1
    /\ \E data \in Payloads, beyond \in DataBytes, survives \in BOOLEAN :
          DoDataToString(data, beyond, survives)

StringToData == DoStringToData

NextCodec == DataToString \/ StringToData

SpecCodec == Init /\ [][NextCodec]_vars

\* C30: stringToData(dataToString(x)) = x, byte for byte, for every byte sequence x: the
\* encoder returns a text, and the decoder makes the payload from it.
C30_Base64RoundTrip ==
    /\ last.op = "dataToString" => last.st = "done"
    /\ last.op = "stringToData" => last.out = last.data

-----------------------------------------------------------------------------
\* The reindex specification SpecReindex: reindexPatches with the failures of its database
\* statements

\* the table inside the transaction when the DELETE number j of deletePatches(synth, md5s)
\* throws: the rows of the md5s before it are deleted, deletePatches returns 0
DeletedBeforeError(tbl, synth, md5s, j) ==
    deletePatchesByMd5(tbl, synth, [k \in 1..(j - 1) |-> md5s[k]])

\* reindexPatches(filter) in an environment in which the SELECT of getPatches fails
\* (fail.kind = "load") or the DELETE number fail.at fails (fail.kind = "delete")
reindexPatchesCall(tbl, imp, bf, algo, filter, fail) ==
    IF Cardinality(filter.synths) > 1
    THEN [t |-> tbl, imp |-> imp, ret |-> -1, st |-> "done", reindexed |-> <<>>]
    ELSE IF fail.kind = "load"
    THEN [t |-> tbl, imp |-> imp, ret |-> -1, st |-> "done", reindexed |-> <<>>]
    ELSE CHOOSE r \in
            { IF Len(pos) = 0
              THEN [t |-> tbl, imp |-> imp, ret |-> getPatchesCount(tbl, filter),
                    st |-> "done", reindexed |-> <<>>]
              ELSE IF fail.kind = "delete" /\ fail.at <= Len(pos)
              THEN \* 0 deleted rows do not match the retrieved ones: return -1, the
                   \* transaction is destroyed without commit
                   [t |-> Rollback(tbl,
                                   DeletedBeforeError(tbl, CHOOSE x \in filter.synths : TRUE,
                                                      [k \in 1..Len(pos) |-> tbl[pos[k]].md5],
                                                      fail.at)),
                    imp |-> imp, ret |-> -1, st |-> "done",
                    reindexed |-> [k \in 1..Len(pos) |-> loadPatchFromQueryRow(bf, tbl[pos[k]])]]
              ELSE ReindexRows(tbl, imp, bf, algo, filter, pos) :
                pos \in { needsReindexing(tbl, bf, algo, filter) } } : TRUE

DoReindexCall(filter, fail) ==
    /\ nOps < MaxOps
    /\ \E r \in { reindexPatchesCall(patches, imports, bitfield, fpAlgo, filter, fail) } :
        /\ patches' = r.t
        /\ imports' = r.imp
        /\ Observe([NoOp EXCEPT !.op = "reindex", !.filter = filter, !.batch = r.reindexed,
                                !.st = r.st, !.ret = r.ret, !.fail = fail,
                                !.pre = patches, !.preImp = imports, !.preAlgo = fpAlgo])
        /\ UNCHANGED <<catTable, bitfield, categoryDefinitions_, fpAlgo, db, patchInList,
                       threadVars>>

HoldersReindex ==
    { Holder(s, d, "N1", {}, {}, "DONTKNOW", FALSE, "s1", "") :
        s \in Synths, d \in {"d1", "d2", "d3"} }

ReindexFailures ==
    { [kind |-> "none", at |-> 0], [kind |-> "load", at |-> 0] }
    \cup { [kind |-> "delete", at |-> j] : j \in 1..MaxBatch }

MergeReindex ==
    /\ nOps < MaxOps
    /\ \E batch \in SeqsUpTo(HoldersReindex, MaxBatch) : DoMerge(batch, UPDATE_ALL, NoAbort)

ReindexCall ==
    /\ nOps < MaxOps
    /\ \E filter \in FiltersMain, fail \in ReindexFailures : DoReindexCall(filter, fail)

NextReindex == MergeReindex \/ ChangeFingerprint \/ ReindexCall

SpecReindex == Init /\ [][NextReindex]_vars

\* C32: whenever reindex returns -1 (more than one synth, failure to load the rows, the
\* number of deleted rows differs from the number of retrieved rows), the patches table is
\* what it was before the call; no row the failed reindex has deleted stays deleted.
C32_ReindexAllOrNothing ==
    (last.op = "reindex" /\ last.ret = -1) => patches = last.pre

\* the second DELETE of a reindex of two rows has failed after the first row was deleted
C32_Witness ==
    /\ last.op = "reindex" /\ last.ret = -1
    /\ last.fail = [kind |-> "delete", at |-> 2]
    /\ Len(last.batch) = 2
    /\ Len(last.pre) >= 2

-----------------------------------------------------------------------------
\* The duplicate specification SpecDedup: merges of batches that hold the same new patch
\* several times under different names

MaxDuplicates == 3

HoldersDedup ==
    { Holder("A", d, n, {}, {}, "DONTKNOW", FALSE, "s1", "") :
        d \in {"d1"}, n \in {"Init", "N1", "N2"} }
    \cup { Holder("A", "d2", "Init", {}, {}, "DONTKNOW", FALSE, "s1", "") }

MergeDedup ==
    /\ nOps < MaxOps
    /\ \E batch \in SeqsUpTo(HoldersDedup, MaxDuplicates) : DoMerge(batch, UPDATE_ALL, NoAbort)

NextDedup == MergeDedup

SpecDedup == Init /\ [][NextDedup]_vars

RECURSIVE NameByPolicy(_, _, _)
\* the name the duplicates of one fingerprint leave when a later name replaces the name
\* stored so far only if that one is a default name and the later one is not
NameByPolicy(holders, stored, i) ==
    IF i > Len(holders) THEN stored
    ELSE NameByPolicy(holders,
                      IF hasDefaultName(holders[i].synth, stored)
                         /\ ~hasDefaultName(holders[i].synth, holders[i].name)
                      THEN holders[i].name ELSE stored,
                      i + 1)

\* the holders of the observed batch with the fingerprint h, in caller order
DuplicatesOf(h) == SelectSeq(last.batch, LAMBDA x : md5(last.preAlgo, x) = h)

\* C33: when a merge batch holds several new holders with the same fingerprint, exactly one
\* row is inserted for it, and the name of the row is replaced by the name of a later
\* duplicate only if the name stored so far is a default name and the later one is not.
C33_InBatchDedup ==
    (last.op = "merge" /\ last.st = "done" /\ last.pre = <<>>) =>
        \A h \in { md5(last.preAlgo, last.batch[k]) : k \in 1..Len(last.batch) } :
            /\ Cardinality({ i \in 1..Len(patches) : patches[i].md5 = h }) = 1
            /\ \A i \in 1..Len(patches) :
                  patches[i].md5 = h
                      => patches[i].name
                           = NameByPolicy(DuplicatesOf(h), DuplicatesOf(h)[1].name, 2)

-----------------------------------------------------------------------------
\* The specification SpecOpenBackup: the constructor of the implementation with the backup
\* files that lie beside the database file

\* the backups beside the file: n files of 250,000,000 bytes each, newest first
BackupsBeside ==
    { [i \in 1..n |-> [mtime |-> n + 1 - i, size |-> 250000000]] : n \in 0..MaxFiles }

\* PatchDataBaseImpl::PatchDataBaseImpl: createSchema, then manageBackupDiskspace, which is
\* reached whenever createSchema has not thrown, whatever the mode is
ConstructImpl(file, mode, failStep, listing, undeletable) ==
    CHOOSE r \in
        { IF impl.thrown = "none"
          THEN [impl |-> impl, pruned |-> manageBackupDiskspace(listing, undeletable)]
          ELSE [impl |-> impl,
                pruned |-> [backupSize |-> 0, keptBackupSize |-> 0, numKept |-> 0,
                            kept |-> listing, removed |-> <<>>, failed |-> <<>>]] :
            impl \in { PatchDataBaseImpl(file, mode, failStep) } } : TRUE

\* PatchDatabase::PatchDatabase(databaseFile, mode) with the directory of the file
DoOpenBesideBackups(file, mode, listing, undeletable) ==
    /\ nOps < MaxOps
    /\ \E c \in { ConstructImpl(file, mode, 0, listing, undeletable) } :
       \E o \in { OpenDatabase(file, mode, 0) } :
        /\ db' = IF o.result = "ok" THEN [file |-> o.file, mode |-> mode]
                 ELSE IF file = CurrentFile THEN [db EXCEPT !.file = o.file]
                 ELSE db
        /\ catTable' = IF o.result = "ok" THEN o.file.categories ELSE catTable
        /\ bitfield' = IF o.result = "ok" THEN ActiveDefinitions(o.file.categories)
                       ELSE bitfield
        /\ categoryDefinitions_' = IF o.result = "ok" THEN getCategories(o.file.categories)
                                   ELSE categoryDefinitions_
        /\ patches' = IF o.result = "ok" /\ file /= CurrentFile THEN <<>> ELSE patches
        /\ imports' = IF o.result = "ok" /\ file /= CurrentFile THEN <<>> ELSE imports
        /\ patchInList' = IF o.result = "ok" /\ file /= CurrentFile THEN <<>> ELSE patchInList
        /\ last' = [NoOp EXCEPT !.op = "open", !.file = file, !.mode = mode,
                                !.st = o.result, !.trace = o.trace, !.after = o.file,
                                !.listing = listing, !.kept = c.pruned.kept,
                                !.removed = c.pruned.removed, !.failed = c.pruned.failed]
        /\ nOps' = MaxOps
        /\ UNCHANGED <<fpAlgo, threadVars>>

OpenBesideBackups ==
    /\ nOps < MaxOps
    /\ \E file \in FilesOnDisk \cup {CurrentFile}, mode \in OpenMode,
          listing \in BackupsBeside :
          \E undeletable \in SUBSET { listing[i].mtime : i \in 1..Len(listing) } :
              DoOpenBesideBackups(file, mode, listing, undeletable)

NextOpenBackup == OpenBesideBackups

SpecOpenBackup == Init /\ [][NextOpenBackup]_vars

\* C34: an open in READ_ONLY mode deletes no backup file; backups are pruned only when the
\* database is opened read-write.
C34_PruneOnlyReadWrite ==
    (last.op = "open" /\ last.mode = READ_ONLY) => last.removed = <<>>

-----------------------------------------------------------------------------
\* The list specification SpecList: patches are merged and put on the list L1, the adapter
\* of synth A changes its fingerprint, and the catalog is reindexed

AddPatchToListReindex == \E h \in HoldersReindex : DoAddPatchToList("L1", h)

NextList == MergeReindex \/ AddPatchToListReindex \/ ChangeFingerprint \/ Reindex

SpecList == Init /\ [][NextList]_vars

\* the entries of patch_in_list that reference a row of the patches table tbl
LiveEntries(tbl) ==
    { k \in 1..Len(patchInList) :
        RowsAt(tbl, patchInList[k].synth, patchInList[k].md5) /= {} }

\* C37: every list entry that referenced an existing patch row before a successful reindex
\* references an existing patch row afterwards, and getPatchList returns the same patches
\* after the reindex as before it.
C37_ListSurvivesReindex ==
    (last.op = "reindex" /\ last.ret >= 0) =>
        /\ LiveEntries(last.pre) \subseteq LiveEntries(patches)
        /\ getPatchList(patches, bitfield, patchInList, "L1", Synths, {}).out
            = getPatchList(last.pre, bitfield, patchInList, "L1", Synths, {}).out

-----------------------------------------------------------------------------
\* The result of putPatch, checked under the catalog specification Spec

\* the patch of the last putPatch has a row under its synth and fingerprint
PutPatchStored ==
    RowsAt(patches, last.batch[1].synth, md5(fpAlgo, last.batch[1])) /= {}

\* C38: putPatch returns true whenever the patch is stored in the catalog after the call,
\* both when it has inserted a new row and when it has updated an existing row with the same
\* synth and fingerprint.
C38_PutPatchReportsSuccess ==
    (last.op = "putPatch" /\ last.st = "done" /\ PutPatchStored) => last.ret = 1

-----------------------------------------------------------------------------
\* The switch specification SpecSwitch: the open PatchDatabase object is pointed at one
\* database file after the other with switchDatabaseFile

\* PatchDatabase::switchDatabaseFile(newDatabaseFile, mode): the new implementation is
\* constructed first; only an SQLite::Exception thrown by value is caught and turned into
\* the result false, everything else that the constructor throws leaves the function.
\* ret is the returned bool (1 true, 0 false), st is "done" when the function has returned
\* and the name of the exception when one has left it
switchDatabaseFile(file, mode, failStep) ==
    CHOOSE r \in
        { IF impl.thrown = "none"
          THEN [file |-> impl.file, trace |-> impl.trace, st |-> "done", ret |-> 1,
                switched |-> TRUE]
          ELSE IF impl.thrown \in {"SQLite::Exception(SQLITE_READONLY)",
                                   "SQLite::Exception(SQLITE_ERROR)",
                                   "SQLite::Exception(SQLITE_CANTOPEN)"}
          THEN [file |-> impl.file, trace |-> impl.trace, st |-> "done", ret |-> 0,
                switched |-> FALSE]
          ELSE [file |-> impl.file, trace |-> impl.trace, st |-> impl.thrown, ret |-> 0,
                switched |-> FALSE] :
            impl \in { PatchDataBaseImpl(file, mode, failStep) } } : TRUE

\* the call on the open database; the files on disk hold no patches
DoSwitchDatabaseFile(file, mode, failStep) ==
    /\ nOps < MaxOps
    /\ \E o \in { switchDatabaseFile(file, mode, failStep) } :
        /\ db' = IF o.switched THEN [file |-> o.file, mode |-> mode]
                 ELSE IF file = CurrentFile THEN [db EXCEPT !.file = o.file]
                 ELSE db
        /\ catTable' = IF o.switched THEN o.file.categories ELSE catTable
        /\ bitfield' = IF o.switched THEN ActiveDefinitions(o.file.categories) ELSE bitfield
        /\ categoryDefinitions_' = IF o.switched THEN getCategories(o.file.categories)
                                   ELSE categoryDefinitions_
        /\ patches' = IF o.switched /\ file /= CurrentFile THEN <<>> ELSE patches
        /\ imports' = IF o.switched /\ file /= CurrentFile THEN <<>> ELSE imports
        /\ patchInList' = IF o.switched /\ file /= CurrentFile THEN <<>> ELSE patchInList
        /\ last' = [NoOp EXCEPT !.op = "switchDatabaseFile", !.file = file, !.mode = mode,
                                !.failStep = failStep, !.st = o.st, !.ret = o.ret,
                                !.trace = o.trace, !.after = o.file]
        /\ nOps' = nOps + 1
        /\ UNCHANGED <<fpAlgo, threadVars>>

\* the files an earlier open has left behind when its migration failed: the tables are
\* created, the version is an old one; each of them writable or write protected by now
FilesAfterFailure ==
    { [o.file EXCEPT !.writable = w] :
        o \in { c \in { PatchDataBaseImpl(f, READ_WRITE, k) :
                           f \in FilesOnDisk, k \in FailSteps \ {0} } :
                    c.thrown = "SQLite::Exception(SQLITE_ERROR)" },
        w \in BOOLEAN }

SwitchDatabaseFile ==
    /\ nOps < MaxOps
    /\ \E file \in FilesOnDisk \cup FilesAfterFailure \cup {CurrentFile},
          mode \in OpenMode, failStep \in FailSteps :
          DoSwitchDatabaseFile(file, mode, failStep)

NextSwitch == MergeReindex \/ SwitchDatabaseFile

SpecSwitch == Init /\ [][NextSwitch]_vars

\* the constructor of the implementation cannot open the file of the last call
CannotBeOpened == PatchDataBaseImpl(last.file, last.mode, last.failStep).thrown /= "none"

\* C39: when the new database file cannot be opened, for whatever reason (SQL error, schema
\* of a later version, migration needed on a read-only file), switchDatabaseFile returns
\* false and the open database stays the active one, unchanged; it returns true only after
\* the new database has been opened.
C39_SwitchFailure ==
    [][last'.op = "switchDatabaseFile" =>
         /\ CannotBeOpened' =>
                /\ last'.st = "done" /\ last'.ret = 0
                /\ <<db, catTable, bitfield, categoryDefinitions_, patches, imports,
                     patchInList>>'
                    = <<db, catTable, bitfield, categoryDefinitions_, patches, imports,
                        patchInList>>
         /\ (last'.st = "done" /\ last'.ret = 1) =>
                /\ ~CannotBeOpened'
                /\ db' = [file |-> last'.after, mode |-> last'.mode]]_vars

=============================================================================
